---------------------------- MODULE Spec2Model ----------------------------
(***************************************************************************)
(* A model of python-parted: the Python wrappers of src/parted (Device,    *)
(* Geometry, Alignment, Constraint, Disk, Partition) over the native       *)
(* library they call through _parted.lib.  The wrappers are translated     *)
(* from their Python source.  The native ped_* functions are not part of   *)
(* the source tree (only their declarations in src/build.py, their callers *)
(* and their tests are), so they are modelled from the specification and   *)
(* from what the tests and docstrings in src/ record about them.           *)
(***************************************************************************)
EXTENDS Integers, Sequences, FiniteSets, TLC

VARIABLES
    sectors,        \* device contents: sector number -> content of the sector
    open_count,     \* PedDevice.open_count
    read_only,      \* PedDevice.read_only
    external_mode,  \* PedDevice.external_mode
    dev_label,      \* the partition table stored on the device (label bytes)
    disk,           \* the in-memory partition table (PedDisk) or NULL
    floating,       \* detached partitions made by new_partition, not yet added
    handles,        \* the Partition objects the caller holds: name -> object
    heap,           \* the native partitions behind them: id -> PedPartition
    result,         \* outcome of the last operation
    call            \* inputs and outputs of the pure functions under check

vars == <<sectors, open_count, read_only, external_mode, dev_label, disk,
          floating, handles, heap, result, call>>

(***************************************************************************)
(* Bounds of the model.                                                    *)
(***************************************************************************)
DevLen == 6         \* device.length, in sectors
MaxOpen == 2        \* cap on the open count
MaxGrain == 3       \* largest alignment grain drawn
MaxBlock == 3       \* largest sectors_block drawn for Device.copy

\* Caps that follow the device: the active partitions of a table, and the
\* longest geometry asked of create_partition.
MaxParts == DevLen \div 3
MaxSpan == DevLen \div 2

Sectors == 0 .. (DevLen - 1)

\* _parted.ffi.NULL: the null native handle every wrapper may hold.
NULL == [null |-> TRUE]

Min(S) == CHOOSE x \in S : \A y \in S : x <= y
Max(S) == CHOOSE x \in S : \A y \in S : x >= y
Abs(x) == IF x < 0 THEN -x ELSE x

\* What is kept of the last operation: its name and the exception it
\* raised.
Res(op, exc) == [op |-> op, exc |-> exc]

\* What a wrapper call gives back: a value, or the exception it raised.
Ok(v) == [exc |-> "none", val |-> v]
Raise(e) == [exc |-> e, val |-> NULL]

(***************************************************************************)
(* Alignment: native library.                                              *)
(***************************************************************************)
RECURSIVE GCD(_, _)
GCD(a, b) == IF b = 0 THEN a ELSE GCD(b, a % b)

\* An alignment is the congruence class offset mod grain_size.
ped_alignment_new(offset, grain_size) ==
    [offset |-> IF grain_size > 0 THEN offset % grain_size ELSE offset,
     grain_size |-> grain_size]

ped_alignment_any == [offset |-> 0, grain_size |-> 1]

ped_alignment_none == [offset |-> 0, grain_size |-> 0]

\* Sector s belongs to the alignment; grain 0 admits the offset alone, a
\* null handle admits nothing.
Satisfied(a, s) ==
    /\ a # NULL
    /\ IF a.grain_size = 0 THEN s = a.offset
       ELSE (s - a.offset) % a.grain_size = 0

\* Chinese-remainder merge: a solution exists iff (o1 - o2) mod gcd(g1, g2)
\* is 0 and then has grain lcm(g1, g2); no solution gives the null handle.
ped_alignment_intersect(a, b) ==
    IF a = NULL \/ b = NULL THEN NULL
    ELSE LET g == GCD(a.grain_size, b.grain_size) IN
         IF g = 0 THEN (IF a.offset = b.offset THEN a ELSE NULL)
         ELSE IF (a.offset - b.offset) % g # 0 THEN NULL
         ELSE IF a.grain_size = 0 THEN a
         ELSE IF b.grain_size = 0 THEN b
         ELSE LET l == (a.grain_size * b.grain_size) \div g IN
              [offset |-> CHOOSE x \in 0 .. (l - 1) :
                              /\ (x - a.offset) % a.grain_size = 0
                              /\ (x - b.offset) % b.grain_size = 0,
               grain_size |-> l]

(***************************************************************************)
(* Geometry: native library.  One device, so a geometry is (start, length).*)
(***************************************************************************)
\* new(device, start, length) fails outside the device; a geometry of
\* length 0 is the degenerate one, held as a null handle.
ped_geometry_new(start, length) ==
    IF start < 0 \/ length < 1 \/ start + length > DevLen THEN NULL
    ELSE [start |-> start, length |-> length]

GeomEnd(g) == g.start + g.length - 1

GeomSectors(g) == IF g = NULL THEN {} ELSE g.start .. GeomEnd(g)

ped_geometry_intersect(a, b) ==
    IF a = NULL \/ b = NULL THEN NULL
    ELSE LET s == IF a.start > b.start THEN a.start ELSE b.start
             e == IF GeomEnd(a) < GeomEnd(b) THEN GeomEnd(a) ELSE GeomEnd(b)
         IN IF s > e THEN NULL ELSE [start |-> s, length |-> e - s + 1]

ped_geometry_test_overlap(a, b) == GeomSectors(a) \cap GeomSectors(b) # {}

(***************************************************************************)
(* Alignment rounding inside a geometry: native library.                   *)
(***************************************************************************)
AlignedIn(a, g) == {s \in GeomSectors(g) : Satisfied(a, s)}

\* Rounding up that gives up where no aligned sector lies at or above.
UpIn_unclamped(S, sector) ==
    IF \E t \in S : t >= sector THEN Min({t \in S : t >= sector})
    ELSE -1

\* Smallest aligned sector of g at or above the sector; clamped to the last
\* aligned sector of g when there is none above; -1 when g holds none.
UpIn(S, sector) ==
    IF S = {} THEN -1
    ELSE IF \E t \in S : t >= sector THEN Min({t \in S : t >= sector})
    ELSE Max(S)

ped_alignment_align_up(a, g, sector) == UpIn(AlignedIn(a, g), sector)

DownIn(S, sector) ==
    IF S = {} THEN -1
    ELSE IF \E t \in S : t <= sector THEN Max({t \in S : t <= sector})
    ELSE Min(S)

ped_alignment_align_down(a, g, sector) == DownIn(AlignedIn(a, g), sector)

\* The nearer of the two roundings; the lower one when both are as near.
NearerOf(sector, up, down) ==
    IF Abs(sector - up) < Abs(sector - down) THEN up ELSE down

ped_alignment_align_nearest(a, g, sector) ==
    NearerOf(sector, ped_alignment_align_up(a, g, sector),
             ped_alignment_align_down(a, g, sector))

(***************************************************************************)
(* Constraint: native library.                                             *)
(***************************************************************************)
\* A constraint needs its two alignments and its two ranges; without one of
\* them there is no constraint (the null handle).
ped_constraint_new(sa, ea, sr, er, min_size, max_size) ==
    IF sa = NULL \/ ea = NULL \/ sr = NULL \/ er = NULL THEN NULL
    ELSE [start_align |-> sa, end_align |-> ea,
          start_range |-> sr, end_range |-> er,
          min_size |-> min_size, max_size |-> max_size]

ped_constraint_any ==
    ped_constraint_new(ped_alignment_any, ped_alignment_any,
                       ped_geometry_new(0, DevLen), ped_geometry_new(0, DevLen),
                       1, DevLen)

\* Pairwise intersection; an empty alignment or range gives the null
\* constraint.
ped_constraint_intersect(a, b) ==
    IF a = NULL \/ b = NULL THEN NULL
    ELSE ped_constraint_new(
             ped_alignment_intersect(a.start_align, b.start_align),
             ped_alignment_intersect(a.end_align, b.end_align),
             ped_geometry_intersect(a.start_range, b.start_range),
             ped_geometry_intersect(a.end_range, b.end_range),
             IF a.min_size > b.min_size THEN a.min_size ELSE b.min_size,
             IF a.max_size < b.max_size THEN a.max_size ELSE b.max_size)

\* A geometry is a solution iff its start and end satisfy their alignment
\* and lie in their range and its length is within [min_size, max_size].
ped_constraint_is_solution(c, g) ==
    /\ c # NULL
    /\ g # NULL
    /\ g.start \in GeomSectors(c.start_range)
    /\ Satisfied(c.start_align, g.start)
    /\ GeomEnd(g) \in GeomSectors(c.end_range)
    /\ Satisfied(c.end_align, GeomEnd(g))
    /\ c.min_size <= g.length
    /\ g.length <= c.max_size

\* The element of S nearest to x, the lower one of two as near.
NearestIn(S, x) ==
    CHOOSE e \in S : \A f \in S :
        \/ Abs(e - x) < Abs(f - x)
        \/ (Abs(e - x) = Abs(f - x) /\ e <= f)

\* Every geometry the constraint accepts: an aligned start of start_range
\* and an aligned end of end_range, the length within the size bounds.
SolutionsOf(c) ==
    {[start |-> se[1], length |-> se[2] - se[1] + 1] :
        se \in {x \in AlignedIn(c.start_align, c.start_range)
                          \X AlignedIn(c.end_align, c.end_range) :
                   /\ c.min_size <= x[2] - x[1] + 1
                   /\ x[2] - x[1] + 1 <= c.max_size}}

\* How far a geometry is from the pair (s0, e0), the shorter and then the
\* lower geometry first among those as far.
NearKey(x, s0, e0) ==
    (Abs(x.start - s0) + Abs(GeomEnd(x) - e0)) * (DevLen + 1) * (DevLen + 1)
        + x.length * (DevLen + 1) + x.start

\* Start and end are each snapped to the target with align_nearest inside
\* their range; when the size bounds reject that pair, the solution that
\* moves start and end the least from it is taken.
PickNearest(sols, s0, e0, best) ==
    CHOOSE x \in sols : NearKey(x, s0, e0) = best

NearestTo(sols, s0, e0) ==
    IF s0 = -1 \/ e0 = -1 \/ sols = {} THEN NULL
    ELSE PickNearest(sols, s0, e0, Min({NearKey(x, s0, e0) : x \in sols}))

ped_constraint_solve_nearest(c, g) ==
    IF c = NULL \/ g = NULL THEN NULL
    ELSE NearestTo(SolutionsOf(c),
                   ped_alignment_align_nearest(c.start_align, c.start_range,
                                               g.start),
                   ped_alignment_align_nearest(c.end_align, c.end_range,
                                               GeomEnd(g)))

\* ped_constraint_solve_max: the solution nearest to the whole device.
ped_constraint_solve_max(c) ==
    IF c = NULL THEN NULL
    ELSE ped_constraint_solve_nearest(c, ped_geometry_new(0, DevLen))

(***************************************************************************)
(* Alignment, Geometry and Constraint: the Python wrappers.                *)
(***************************************************************************)
\* Alignment.__init__ with an int offset.
Alignment(offset, grain_size) == ped_alignment_new(offset, grain_size)

\* Alignment.__bool__
Alignment_bool(a) == a # NULL

\* Alignment.offset and Alignment.grain_size: 0 on a null handle.
Alignment_offset(a) == IF a = NULL THEN 0 ELSE a.offset

Alignment_grain_size(a) == IF a = NULL THEN 0 ELSE a.grain_size

\* Alignment.__eq__
Alignment_eq(a, b) ==
    /\ Alignment_offset(a) = Alignment_offset(b)
    /\ Alignment_grain_size(a) = Alignment_grain_size(b)

Alignment_intersect_self(a, other) ==
    IF a = NULL THEN Raise("InvalidObjectError")
    ELSE Ok(ped_alignment_intersect(a, a))

\* Alignment.intersect, under @ensure_obj.
Alignment_intersect(a, other) ==
    IF a = NULL THEN Raise("InvalidObjectError")
    ELSE Ok(ped_alignment_intersect(a, other))

\* Geometry.__init__ with a valid device.
Geometry(start, length) == ped_geometry_new(start, length)

\* Geometry.start, Geometry.length and Geometry.end: 0 on a null handle.
Geometry_start(g) == IF g = NULL THEN 0 ELSE g.start

Geometry_length(g) == IF g = NULL THEN 0 ELSE g.length

Geometry_end(g) == IF g = NULL THEN 0 ELSE GeomEnd(g)

\* Constraint.new: the sanity checks, then the native constructor.
Constraint_new(sa, ea, sr, er, min_size_sector, max_size_sector) ==
    IF min_size_sector <= 0 THEN Raise("PartedException")
    ELSE IF max_size_sector <= 0 THEN Raise("PartedException")
    ELSE Ok(ped_constraint_new(sa, ea, sr, er, min_size_sector, max_size_sector))

\* Constraint.any
Constraint_any == ped_constraint_any

Constraint_intersect_nocheck(c, other) == Ok(ped_constraint_intersect(c, other))

\* Constraint.intersect, under @ensure_obj: a null receiver raises.
Constraint_intersect(c, other) ==
    IF c = NULL THEN Raise("InvalidObjectError")
    ELSE Ok(ped_constraint_intersect(c, other))

\* Constraint.is_solution, under @ensure_obj.
Constraint_is_solution(c, g) ==
    IF c = NULL THEN Raise("InvalidObjectError")
    ELSE Ok(ped_constraint_is_solution(c, g))

\* Constraint.solve_max, under @ensure_obj.
Constraint_solve_max(c) ==
    IF c = NULL THEN Raise("InvalidObjectError")
    ELSE Ok(ped_constraint_solve_max(c))

Constraint_solve_nearest_no_target(c, g) ==
    IF c = NULL THEN Raise("InvalidObjectError")
    ELSE Ok(ped_constraint_solve_nearest(c, ped_geometry_new(0, DevLen)))

\* Constraint.solve_nearest, under @ensure_obj.
Constraint_solve_nearest(c, g) ==
    IF c = NULL THEN Raise("InvalidObjectError")
    ELSE Ok(ped_constraint_solve_nearest(c, g))

(***************************************************************************)
(* State shared by the specifications that exercise one class only: the    *)
(* device is closed, no table is loaded.                                   *)
(***************************************************************************)
Idle ==
    /\ sectors = [i \in Sectors |-> i + 1]
    /\ open_count = 0
    /\ read_only = FALSE
    /\ external_mode = FALSE
    /\ dev_label = NULL
    /\ disk = NULL
    /\ floating = NULL
    /\ handles = <<>>
    /\ heap = <<>>
    /\ result = Res("init", "none")

IdleUnchanged ==
    UNCHANGED <<sectors, open_count, read_only, external_mode, dev_label,
                disk, floating, handles, heap, result>>

(***************************************************************************)
(* SpecAlign: two alignments are built, then intersected.                  *)
(***************************************************************************)
\* Alignment.any() and Alignment.none()
Alignment_any == ped_alignment_any

Alignment_none == ped_alignment_none

\* The alignments a caller can build: Alignment(offset, grain_size).
AlignInputs ==
    {Alignment(o, g) : o \in (-1) .. (DevLen - 1), g \in 0 .. MaxGrain}
        \cup {Alignment_any, Alignment_none}

\* Sectors far enough on both sides to tell any two alignments apart.
ProbeSectors == (-MaxGrain) .. (MaxGrain * MaxGrain + DevLen)

InitAlign ==
    /\ Idle
    /\ \E a \in AlignInputs, b \in AlignInputs :
           call = [op |-> "new", a |-> a, b |-> b, res |-> NULL]

AlignIntersect ==
    /\ call.op = "new"
    /\ call' = [call EXCEPT !.op = "intersect",
                            !.res = Alignment_intersect(call.a, call.b)]
    /\ IdleUnchanged

NextAlign == AlignIntersect

SpecAlign == InitAlign /\ [][NextAlign]_vars

CommonSectors(a, b) == {s \in ProbeSectors : Satisfied(a, s) /\ Satisfied(b, s)}

\* C7: Alignment.intersect of two valid alignments never raises; its result
\* is satisfied by exactly the sectors that satisfy both operands; with
\* Alignment.any() as one operand the result equals the other operand; and
\* when the operands share no sector the result equals Alignment.none() and
\* is falsy.
C7_IntersectIsConjunction ==
    call.op = "intersect" =>
        LET a == call.a
            b == call.b
            r == call.res
        IN /\ r.exc = "none"
           /\ \A s \in ProbeSectors :
                  Satisfied(r.val, s) <=> (Satisfied(a, s) /\ Satisfied(b, s))
           /\ (a = Alignment_any => Alignment_eq(r.val, b))
           /\ (b = Alignment_any => Alignment_eq(r.val, a))
           /\ (CommonSectors(a, b) = {} =>
                  /\ Alignment_eq(r.val, Alignment_none)
                  /\ ~Alignment_bool(r.val))

\* (0,2) with (1,2): no common sector, the result is the falsy null handle.
C7_Witness ==
    /\ call.op = "intersect"
    /\ call.a = Alignment(0, 2)
    /\ call.b = Alignment(1, 2)
    /\ call.res = Ok(NULL)

(***************************************************************************)
(* SpecSolve: a constraint is built with Constraint.new, then solved.      *)
(***************************************************************************)
AllGeoms == {ped_geometry_new(s, l) : s \in Sectors, l \in 1 .. DevLen} \ {NULL}

Solutions(c) == {g \in AllGeoms : ped_constraint_is_solution(c, g)}

SolveAligns ==
    {Alignment(o, g) : o \in 0 .. (MaxGrain - 1), g \in 1 .. MaxGrain}
        \cup {Alignment(2, 0)}

SolveStartRanges ==
    {Geometry(0, DevLen), Geometry(0, DevLen \div 2), Geometry(1, 2)}

SolveEndRanges == {Geometry(0, DevLen), Geometry(2, DevLen - 2)}

SolveSizes == {<<1, DevLen>>, <<1, 2>>, <<2, 3>>, <<4, DevLen>>}

\* The valid constraints Constraint.new returns on these arguments.
SolveInputs ==
    {r.val : r \in {q \in {Constraint_new(sa, ea, sr, er, mm[1], mm[2]) :
                               sa \in SolveAligns, ea \in SolveAligns,
                               sr \in SolveStartRanges, er \in SolveEndRanges,
                               mm \in SolveSizes} :
                        q.exc = "none" /\ q.val # NULL}}

InitSolve ==
    /\ Idle
    /\ \E c \in SolveInputs :
           call = [op |-> "new", c |-> c, g |-> NULL, res |-> NULL]

SolveMax ==
    /\ call.op = "new"
    /\ call' = [call EXCEPT !.op = "solve_max",
                            !.res = Constraint_solve_max(call.c)]
    /\ IdleUnchanged

SolveNearest ==
    /\ call.op = "new"
    /\ \E g \in AllGeoms :
           call' = [call EXCEPT !.op = "solve_nearest", !.g = g,
                                !.res = Constraint_solve_nearest(call.c, g)]
    /\ IdleUnchanged

NextSolve == SolveMax \/ SolveNearest

SpecSolve == InitSolve /\ [][NextSolve]_vars

\* C6: Constraint.solve_max returns a geometry iff the constraint has a
\* solution; a returned geometry is a solution and no solution is longer.
C6_SolveMaxComplete ==
    call.op = "solve_max" =>
        LET r == call.res IN
        /\ r.exc = "none"
        /\ (r.val # NULL <=> Solutions(call.c) # {})
        /\ (r.val # NULL =>
               /\ ped_constraint_is_solution(call.c, r.val)
               /\ \A g \in Solutions(call.c) : g.length <= r.val.length)

\* The nearest aligned start and end of a target, each inside its range.
NearestStart(c, g) == NearestIn(AlignedIn(c.start_align, c.start_range), g.start)

NearestEnd(c, g) == NearestIn(AlignedIn(c.end_align, c.end_range), GeomEnd(g))

HasSnappedPair(c) ==
    /\ AlignedIn(c.start_align, c.start_range) # {}
    /\ AlignedIn(c.end_align, c.end_range) # {}

\* C9 without the size bounds: solve_nearest always returns a solution
\* whose start and end are the nearest aligned sectors of their ranges.
C9_NearestAlwaysSolves ==
    call.op = "solve_nearest" =>
        LET r == call.res
            c == call.c
        IN /\ r.exc = "none"
           /\ r.val # NULL
           /\ ped_constraint_is_solution(c, r.val)
           /\ HasSnappedPair(c)
           /\ r.val.start = NearestStart(c, call.g)
           /\ GeomEnd(r.val) = NearestEnd(c, call.g)

\* C9: Constraint.solve_nearest never raises on a valid constraint; a
\* geometry it returns is a solution; and when the nearest aligned start and
\* the nearest aligned end (the lower of two equally near) give a length
\* within [min_size, max_size], the result is exactly that pair.
C9_NearestWhenPairFits ==
    call.op = "solve_nearest" =>
        LET r == call.res
            c == call.c
        IN /\ r.exc = "none"
           /\ (r.val # NULL => ped_constraint_is_solution(c, r.val))
           /\ (HasSnappedPair(c) =>
                  LET s == NearestStart(c, call.g)
                      e == NearestEnd(c, call.g)
                  IN (c.min_size <= e - s + 1 /\ e - s + 1 <= c.max_size) =>
                         r.val = [start |-> s, length |-> e - s + 1])

\* Any start, even ends, target [0, 3]: ends 2 and 4 are equally near and
\* the result ends at 2.
C9_Witness ==
    /\ call.op = "solve_nearest"
    /\ call.c = ped_constraint_new(Alignment(0, 1), Alignment(0, 2),
                                   Geometry(0, DevLen \div 2), Geometry(0, DevLen),
                                   1, DevLen)
    /\ call.g = Geometry(0, 4)
    /\ call.res = Ok([start |-> 0, length |-> 3])

(***************************************************************************)
(* SpecIntersect: three constraints are built, then intersected in the two *)
(* groupings and the two orders.                                           *)
(***************************************************************************)
IsectStartAligns == {Alignment(0, 1), Alignment(0, 2), Alignment(1, 2)}

IsectEndAligns == {Alignment(0, 1), Alignment(1, MaxGrain)}

IsectStartRanges ==
    {Geometry(0, DevLen), Geometry(0, 2), Geometry(DevLen \div 2, DevLen \div 2)}

IsectSizes == {<<1, DevLen>>, <<2, 3>>}

IsectInputs ==
    {r.val : r \in {q \in {Constraint_new(sa, ea, sr, Geometry(0, DevLen), mm[1], mm[2]) :
                               sa \in IsectStartAligns, ea \in IsectEndAligns,
                               sr \in IsectStartRanges, mm \in IsectSizes} :
                        q.exc = "none" /\ q.val # NULL}}

InitIntersect ==
    /\ Idle
    /\ \E a \in IsectInputs, b \in IsectInputs, c \in IsectInputs :
           call = [op |-> "new", a |-> a, b |-> b, c |-> c, res |-> NULL]

\* A.intersect(B).intersect(C): the second call is made on the first result.
IntersectLeft(a, b, c) ==
    LET ab == Constraint_intersect(a, b) IN
    IF ab.exc # "none" THEN ab ELSE Constraint_intersect(ab.val, c)

\* A.intersect(B.intersect(C)): the inner result is passed as the argument.
IntersectRight(a, b, c) ==
    LET bc == Constraint_intersect(b, c) IN
    IF bc.exc # "none" THEN bc ELSE Constraint_intersect(a, bc.val)

Intersect3 ==
    /\ call.op = "new"
    /\ call' = [call EXCEPT
                   !.op = "intersect",
                   !.res = [left |-> IntersectLeft(call.a, call.b, call.c),
                            right |-> IntersectRight(call.a, call.b, call.c),
                            ab |-> Constraint_intersect(call.a, call.b),
                            ba |-> Constraint_intersect(call.b, call.a)]]
    /\ IdleUnchanged

NextIntersect == Intersect3

SpecIntersect == InitIntersect /\ [][NextIntersect]_vars

\* The geometries a call's result accepts; none when the result is the
\* null constraint.
Accepted(r) == IF r.val = NULL THEN {} ELSE Solutions(r.val)

\* C8 for every evaluation order: both groupings and both orders complete
\* and accept exactly the geometries every operand accepts, an empty
\* intermediate result included.
C8_AnyOrderCompletes ==
    call.op = "intersect" =>
        LET r == call.res
            all3 == Solutions(call.a) \cap Solutions(call.b) \cap Solutions(call.c)
        IN /\ r.left.exc = "none"
           /\ r.right.exc = "none"
           /\ Accepted(r.left) = all3
           /\ Accepted(r.right) = all3
           /\ r.ab.exc = "none"
           /\ r.ba.exc = "none"
           /\ Accepted(r.ab) = Accepted(r.ba)
           /\ Accepted(r.ab) = Solutions(call.a) \cap Solutions(call.b)

\* C8: A.intersect(B) and B.intersect(A) never raise and accept exactly the
\* geometries both operands accept; A.intersect(B.intersect(C)) never raises
\* and accepts exactly those all three accept; A.intersect(B).intersect(C)
\* accepts the same set when A.intersect(B) is not null, and raises
\* InvalidObjectError when it is null, no geometry being accepted by all
\* three then.
C8_IntersectSolutionSets ==
    call.op = "intersect" =>
        LET r == call.res
            all3 == Solutions(call.a) \cap Solutions(call.b) \cap Solutions(call.c)
        IN /\ r.ab.exc = "none"
           /\ r.ba.exc = "none"
           /\ Accepted(r.ab) = Accepted(r.ba)
           /\ Accepted(r.ab) = Solutions(call.a) \cap Solutions(call.b)
           /\ r.right.exc = "none"
           /\ Accepted(r.right) = all3
           /\ IF r.ab.val # NULL
              THEN r.left.exc = "none" /\ Accepted(r.left) = all3
              ELSE r.left = Raise("InvalidObjectError") /\ all3 = {}

\* Even starts with odd starts is empty: intersecting the empty result
\* again raises, while passing an empty result as the argument does not.
C8_Witness ==
    /\ call.op = "intersect"
    /\ call.a.start_align = Alignment(0, 2)
    /\ call.b.start_align = Alignment(1, 2)
    /\ call.res.ab = Ok(NULL)
    /\ call.res.left = Raise("InvalidObjectError")
    /\ call.res.right = Ok(NULL)

(***************************************************************************)
(* Device: native library.  The device is a fixed array of DevLen sectors; *)
(* content 0 is a sector of zero bytes.                                    *)
(***************************************************************************)
\* ped_device_read: 1 and the sectors read, or 0 outside the device.
ped_device_read(mem, start, count) ==
    IF start < 0 \/ count < 0 \/ start + count > DevLen
    THEN [ret |-> 0, buf |-> <<>>]
    ELSE [ret |-> 1, buf |-> [i \in 1 .. count |-> mem[start + i - 1]]]

\* ped_device_write: 1 and the device contents after the write, or 0.
ped_device_write(mem, buf, start, count) ==
    IF start < 0 \/ count < 0 \/ start + count > DevLen
    THEN [ret |-> 0, mem |-> mem]
    ELSE [ret |-> 1,
          mem |-> [i \in Sectors |-> IF start <= i /\ i < start + count
                                     THEN buf[i - start + 1] ELSE mem[i]]]

\* ped_device_write on a device backed by a regular file: a write past the
\* end extends the file, and the length of the device stays what it was
\* until the device is opened again.
ped_device_write_file(mem, buf, start, count) ==
    IF start < 0 \/ count < 0
    THEN [ret |-> 0, mem |-> mem]
    ELSE [ret |-> 1,
          mem |-> [i \in Sectors |-> IF start <= i /\ i < start + count
                                     THEN buf[i - start + 1] ELSE mem[i]]]

(***************************************************************************)
(* Device: the Python wrapper.  A call that touches the contents gives     *)
(* back [exc, val, mem, native]: the exception, the value, the contents    *)
(* after, and whether the call got as far as the native library.           *)
(***************************************************************************)
\* Device.is_opened
Device_is_opened == open_count # 0

\* Device.wants_access: the exception it raises, "none" when access is
\* granted.
Device_wants_access(for_writing) ==
    IF ~Device_is_opened THEN "NotOpenedError"
    ELSE IF external_mode THEN "InvalidDeviceError"
    ELSE IF for_writing /\ read_only THEN "ReadOnlyError"
    ELSE "none"

\* A call stopped by wants_access.
Refused(e, mem) == [exc |-> e, val |-> NULL, mem |-> mem, native |-> FALSE]

\* Device.read
Device_read(mem, sector_start, sector_count) ==
    IF Device_wants_access(FALSE) # "none"
    THEN Refused(Device_wants_access(FALSE), mem)
    ELSE LET start == IF sector_start < 0 THEN DevLen + sector_start
                      ELSE sector_start
             rd == ped_device_read(mem, start, sector_count)
         IN \* The buffer is allocated before the library is called: no
            \* buffer has a negative size.
            IF sector_count < 0
            THEN [exc |-> "ValueError", val |-> NULL, mem |-> mem,
                  native |-> FALSE]
            ELSE IF rd.ret = 0
            THEN [exc |-> "IOError", val |-> NULL, mem |-> mem,
                  native |-> TRUE]
            ELSE [exc |-> "none", val |-> rd.buf, mem |-> mem,
                  native |-> TRUE]

\* Device.write that hands a negative start to the library as it is.
Device_write_as_given(mem, buffer, sector_start, sector_count) ==
    IF Device_wants_access(TRUE) # "none"
    THEN Refused(Device_wants_access(TRUE), mem)
    ELSE LET buf == [i \in 1 .. Max({sector_count, Len(buffer)}) |->
                        IF i <= Len(buffer) THEN buffer[i] ELSE 0]
             wr == ped_device_write(mem, buf, sector_start, sector_count)
         IN IF wr.ret = 0
            THEN [exc |-> "IOError", val |-> NULL, mem |-> mem,
                  native |-> TRUE]
            ELSE [exc |-> "none", val |-> NULL, mem |-> wr.mem,
                  native |-> TRUE]

\* Device.write: a short buffer is padded with zeros.
Device_write(mem, buffer, sector_start, sector_count) ==
    IF Device_wants_access(TRUE) # "none"
    THEN Refused(Device_wants_access(TRUE), mem)
    ELSE LET start == IF sector_start < 0 THEN DevLen + sector_start
                      ELSE sector_start
             buf == [i \in 1 .. Max({sector_count, Len(buffer)}) |->
                        IF i <= Len(buffer) THEN buffer[i] ELSE 0]
             wr == ped_device_write(mem, buf, start, sector_count)
         IN IF wr.ret = 0
            THEN [exc |-> "IOError", val |-> NULL, mem |-> mem,
                  native |-> TRUE]
            ELSE [exc |-> "none", val |-> NULL, mem |-> wr.mem,
                  native |-> TRUE]

\* Device.write on a device backed by a regular file.
Device_write_file(mem, buffer, sector_start, sector_count) ==
    IF Device_wants_access(TRUE) # "none"
    THEN Refused(Device_wants_access(TRUE), mem)
    ELSE LET start == IF sector_start < 0 THEN DevLen + sector_start
                      ELSE sector_start
             buf == [i \in 1 .. Max({sector_count, Len(buffer)}) |->
                        IF i <= Len(buffer) THEN buffer[i] ELSE 0]
             wr == ped_device_write_file(mem, buf, start, sector_count)
         IN IF wr.ret = 0
            THEN [exc |-> "IOError", val |-> NULL, mem |-> mem,
                  native |-> TRUE]
            ELSE [exc |-> "none", val |-> NULL, mem |-> wr.mem,
                  native |-> TRUE]

\* The outcome r of the rest of a copy that already made a native call.
AfterNative(r) == [r EXCEPT !.native = TRUE]

\* do_copy of Device.copy: one block read, then written.  The read has
\* reached the library when the write is called, whatever the write does.
do_copy(mem, source, to, sector_num, size) ==
    LET rd == Device_read(mem, source.start + sector_num, size) IN
    IF rd.exc # "none" THEN rd
    ELSE AfterNative(Device_write(mem, rd.val, to + sector_num, size))

\* The blocks of Device.copy in the order the loop takes them: ascending
\* when source.start > to, descending otherwise.
range_block(source, to, sectors_block) ==
    LET block_count == source.length \div sectors_block IN
    IF source.start > to THEN [k \in 1 .. block_count |-> k - 1]
    ELSE [k \in 1 .. block_count |-> block_count - k]

\* The loop "for blk in range_block: do_copy(...)"; it stops at the first
\* exception.
RECURSIVE copy_blocks(_, _, _, _, _)
copy_blocks(mem, source, to, sectors_block, blks) ==
    IF blks = <<>>
    THEN [exc |-> "none", val |-> NULL, mem |-> mem, native |-> FALSE]
    ELSE LET r == do_copy(mem, source, to, Head(blks) * sectors_block,
                          sectors_block)
         IN IF r.exc # "none" THEN r
            ELSE AfterNative(copy_blocks(r.mem, source, to, sectors_block,
                                         Tail(blks)))

\* Device.copy
Device_copy(mem, source, to, sectors_block) ==
    IF source.start = to
    THEN [exc |-> "none", val |-> NULL, mem |-> mem, native |-> FALSE]
    ELSE IF Device_wants_access(TRUE) # "none"
    THEN Refused(Device_wants_access(TRUE), mem)
    ELSE LET block_count == source.length \div sectors_block
             block_rest == source.length % sectors_block
             r == copy_blocks(mem, source, to, sectors_block,
                              range_block(source, to, sectors_block))
         IN IF r.exc # "none" THEN r
            ELSE IF block_rest # 0
            THEN do_copy(r.mem, source, to, block_count * sectors_block,
                         block_rest)
            ELSE r

(***************************************************************************)
(* Device actions.                                                         *)
(***************************************************************************)
\* ped_device_open and ped_device_close keep the count of opens.
ped_device_open(count) == count + 1

ped_device_close(count) == count - 1

\* Device.open(mode): the native open, then read_only is set from the mode.
DevOpen(mode) ==
    /\ open_count < MaxOpen
    /\ open_count' = ped_device_open(open_count)
    /\ read_only' = (mode = "r")
    /\ result' = Res("open", "none")
    /\ UNCHANGED <<sectors, external_mode, dev_label, disk, floating, handles, heap, call>>

\* Device.close without the test of is_opened.
Device_close_unguarded(count) == ped_device_close(count)

\* Device.close: the open count afterwards; nothing to do on a device that
\* is not opened.
Device_close(count) ==
    IF count # 0 THEN ped_device_close(count) ELSE count

DevClose ==
    /\ open_count' = Device_close(open_count)
    /\ result' = Res("close", "none")
    /\ UNCHANGED <<sectors, read_only, external_mode, dev_label, disk,
                   floating, handles, heap, call>>

\* The calls do_copy(sector_num, size) that Device.copy makes, in order: the
\* whole blocks of range_block, then the last, partial block.
copy_jobs(source, to, sectors_block) ==
    LET block_count == source.length \div sectors_block
        block_rest == source.length % sectors_block
        blks == range_block(source, to, sectors_block)
        whole == [k \in 1 .. block_count |->
                     [sector_num |-> blks[k] * sectors_block,
                      size |-> sectors_block]]
    IN IF block_rest # 0
       THEN Append(whole, [sector_num |-> block_count * sectors_block,
                           size |-> block_rest])
       ELSE whole

\* The sector written by the calls; no sector holds it at the start.
Mark == DevLen + 1

\* What the callback of a timer does with the device when it is called:
\* nothing, a write of one sector, a close, or one more open.
Callbacks ==
    {[op |-> "look"], [op |-> "close"]}
        \cup {[op |-> "write", at |-> s] : s \in Sectors}
        \cup {[op |-> "open", mode |-> m] : m \in {"r", "rw"}}

\* Timer.update of a timer made by Timer.new(callback): the library calls
\* timer_handler, which runs the callback and logs and drops whatever it
\* raises.  The device as the callback leaves it.
timer_handler(cb, mem, count, ro) ==
    IF cb.op = "write"
    THEN [mem |-> Device_write(mem, <<Mark>>, cb.at, 1).mem,
          open_count |-> count, read_only |-> ro]
    ELSE IF cb.op = "close"
    THEN [mem |-> mem, open_count |-> Device_close(count), read_only |-> ro]
    ELSE IF cb.op = "open"
    THEN [mem |-> mem, open_count |-> ped_device_open(count),
          read_only |-> (cb.mode = "r")]
    ELSE [mem |-> mem, open_count |-> count, read_only |-> ro]

(***************************************************************************)
(* SpecCopy: the device is opened and closed, and one Device.copy is made  *)
(* on its initial contents, which differ from sector to sector.  A copy    *)
(* without a timer is one step.  A copy with a timer calls the timer's     *)
(* callback before each block, and the callback may use the device: such   *)
(* a copy is a step for the start, then for each block a step of the       *)
(* callback and a step of the block.                                       *)
(***************************************************************************)
InitCopy == Idle /\ call = NULL

\* A Device.copy has been called and has not returned yet.
Copying == call # NULL /\ call.stage # "done"

\* Device.copy(source, to, tm=None, sectors_block)
DevCopy(source, to, sectors_block) ==
    /\ call = NULL
    /\ LET r == Device_copy(sectors, source, to, sectors_block) IN
       /\ sectors' = r.mem
       /\ call' = [op |-> "copy", source |-> source, to |-> to,
                   sectors_block |-> sectors_block, before |-> sectors,
                   writable |-> Device_wants_access(TRUE) = "none",
                   exc |-> r.exc, timed |-> FALSE, stage |-> "done",
                   pending |-> <<>>, updates |-> 0, meddled |-> FALSE,
                   untimed |-> [exc |-> r.exc, mem |-> r.mem]]
       /\ result' = Res("copy", r.exc)
    /\ UNCHANGED <<open_count, read_only, external_mode, dev_label, disk,
                   floating, handles, heap>>

\* Device.copy(source, to, tm, sectors_block) with a timer, up to the first
\* do_copy: it returns at once for a copy onto itself, and raises what
\* wants_access raises.
DevCopyTimed(source, to, sectors_block) ==
    /\ call = NULL
    /\ LET r == Device_copy(sectors, source, to, sectors_block)
           returns == source.start = to \/ Device_wants_access(TRUE) # "none"
       IN
       /\ call' = [op |-> "copy", source |-> source, to |-> to,
                   sectors_block |-> sectors_block, before |-> sectors,
                   writable |-> Device_wants_access(TRUE) = "none",
                   exc |-> IF returns THEN r.exc ELSE "none",
                   timed |-> TRUE,
                   stage |-> IF returns THEN "done" ELSE "update",
                   pending |-> IF returns THEN <<>>
                               ELSE copy_jobs(source, to, sectors_block),
                   updates |-> 0, meddled |-> FALSE,
                   untimed |-> [exc |-> r.exc, mem |-> r.mem]]
       /\ result' = IF returns THEN Res("copy", r.exc) ELSE result
    /\ UNCHANGED <<sectors, open_count, read_only, external_mode, dev_label,
                   disk, floating, handles, heap>>

\* do_copy, first half: tm.update runs the callback.
TimerUpdate(cb) ==
    /\ Copying
    /\ call.stage = "update"
    /\ cb.op = "open" => open_count < MaxOpen
    /\ LET after == timer_handler(cb, sectors, open_count, read_only) IN
       /\ sectors' = after.mem
       /\ open_count' = after.open_count
       /\ read_only' = after.read_only
    /\ call' = [call EXCEPT !.stage = "block", !.updates = @ + 1,
                            !.meddled = @ \/ cb.op # "look"]
    /\ UNCHANGED <<external_mode, dev_label, disk, floating, handles, heap,
                   result>>

\* do_copy, second half: the block is read and written.  The copy returns
\* after its last block, and stops at the first exception.
CopyBlock ==
    /\ Copying
    /\ call.stage = "block"
    /\ LET job == Head(call.pending)
           r == do_copy(sectors, call.source, call.to, job.sector_num,
                        job.size)
           returns == r.exc # "none" \/ Tail(call.pending) = <<>>
       IN
       /\ sectors' = r.mem
       /\ call' = [call EXCEPT !.pending = IF r.exc # "none" THEN @
                                           ELSE Tail(@),
                               !.stage = IF returns THEN "done"
                                         ELSE "update",
                               !.exc = r.exc]
       /\ result' = IF returns THEN Res("copy", r.exc) ELSE result
    /\ UNCHANGED <<open_count, read_only, external_mode, dev_label, disk,
                   floating, handles, heap>>

NextCopy ==
    \/ \E mode \in {"r", "rw"} : ~Copying /\ DevOpen(mode)
    \/ ~Copying /\ DevClose
    \/ \E source \in AllGeoms, to \in Sectors, sectors_block \in 1 .. MaxBlock :
           DevCopy(source, to, sectors_block)
    \/ \E source \in AllGeoms, to \in Sectors, sectors_block \in 1 .. MaxBlock :
           DevCopyTimed(source, to, sectors_block)
    \/ \E cb \in Callbacks : TimerUpdate(cb)
    \/ CopyBlock

SpecCopy == InitCopy /\ [][NextCopy]_vars

\* A copy with a timer whose callback left the device alone ends as the
\* copy without a timer does: with its exception and its sectors.
TimedCopyAsUntimed ==
    (call # NULL /\ call.stage = "done" /\ ~call.meddled) =>
        /\ call.exc = call.untimed.exc
        /\ sectors = call.untimed.mem

\* The callback of a test that counts its calls: called before every block
\* of a copy that returned, and never by a copy of a region onto itself.
CallbackCalled ==
    (call # NULL /\ call.timed /\ call.stage = "done" /\ call.exc = "none") =>
        call.updates = IF call.source.start = call.to THEN 0
                       ELSE Len(copy_jobs(call.source, call.to,
                                          call.sectors_block))

\* C1: after Device.copy(source, to, sectors_block) returns on a device
\* opened read-write, sectors [to, to + source.length) hold what sectors
\* [source.start, source.start + source.length) held before the call.
C1_CopyMovesSource ==
    (/\ call # NULL
     /\ call.stage = "done"
     /\ ~call.meddled
     /\ call.writable
     /\ call.exc = "none") =>
        \A i \in 0 .. (call.source.length - 1) :
            /\ call.to + i \in Sectors
            /\ sectors[call.to + i] = call.before[call.source.start + i]

(***************************************************************************)
(* Partition tables: native library.  A table is [type, parts]: the label  *)
(* type and the set of its active partitions, each a record [num, type,    *)
(* start, length, name, boot].  Free-space and metadata nodes are derived  *)
(* from the active partitions.                                             *)
(***************************************************************************)
\* PartitionType
NORMAL == 0
LOGICAL == 1
EXTENDED == 2
FREE == 4
METADATA == 8

\* DiskType.Feature
FEATURE_EXTENDED == 1
FEATURE_NAME == 2

\* Flag test "t & b" for a single flag b.
HasBit(t, b) == (t \div b) % 2 = 1

\* PartitionType.is_valid: neither free space nor metadata.
PartitionType_is_valid(t) == ~(HasBit(t, FREE) \/ HasBit(t, METADATA))

\* The features of the two label types modelled.
DiskType_features(label_type) ==
    IF label_type = "msdos" THEN FEATURE_EXTENDED
    ELSE IF label_type = "gpt" THEN FEATURE_NAME
    ELSE 0

LabelTypes == {"msdos", "gpt"}

\* Sectors the label keeps for itself: the first and the last sector of the
\* device, on both label types.
LabelMetadata(label_type) == {0, DevLen - 1}

PartEnd(p) == p.start + p.length - 1

PartSectors(p) == p.start .. PartEnd(p)

\* The sectors of metadata a logical partition keeps in front of itself.
LogicalHeader == 2

\* A logical partition is preceded by metadata of its own.
Footprint(p) ==
    IF HasBit(p.type, LOGICAL) THEN (p.start - LogicalHeader) .. PartEnd(p)
    ELSE PartSectors(p)

Primaries(d) == {p \in d.parts : ~HasBit(p.type, LOGICAL)}

Logicals(d) == {p \in d.parts : HasBit(p.type, LOGICAL)}

\* ped_disk_extended_partition
ped_disk_extended_partition(d) ==
    IF \E p \in d.parts : p.type = EXTENDED
    THEN CHOOSE p \in d.parts : p.type = EXTENDED
    ELSE NULL

\* ped_disk_get_partition
ped_disk_get_partition(d, num) ==
    IF \E p \in d.parts : p.num = num
    THEN CHOOSE p \in d.parts : p.num = num
    ELSE NULL

\* The maximal runs of consecutive sectors of S, as nodes of the given type.
Runs(S, node_type) ==
    {[num |-> -1, type |-> node_type, start |-> a, length |-> b - a + 1,
      name |-> "", boot |-> FALSE] :
        <<a, b>> \in {ab \in S \X S :
                         /\ ab[1] <= ab[2]
                         /\ \A x \in ab[1] .. ab[2] : x \in S
                         /\ (ab[1] - 1) \notin S
                         /\ (ab[2] + 1) \notin S}}

\* The top-level nodes: primary and extended partitions, the label's
\* metadata, and free space everywhere else.
TopNodes(d) ==
    LET used == UNION {PartSectors(p) : p \in Primaries(d)}
        meta == LabelMetadata(d.type)
    IN Primaries(d) \cup Runs(meta, METADATA)
           \cup Runs(Sectors \ (used \cup meta), FREE)

\* The metadata the extended partition keeps for itself: its first sector.
ExtendedMetadata(ext) == {ext.start}

\* The metadata of a logical partition: the sectors in front of it, but
\* for those the extended partition keeps for itself.  In an extended
\* partition that starts where the metadata of its first logical partition
\* did, the two are two nodes, one behind the other.
LogicalMetadata(p, ext) ==
    ((p.start - LogicalHeader) .. (p.start - 1)) \ ExtendedMetadata(ext)

\* The nodes inside the extended partition: its own metadata node, the
\* logical partitions, the metadata node of each of them, and logical free
\* space everywhere else.
LogicalNodes(d) ==
    LET ext == ped_disk_extended_partition(d) IN
    IF ext = NULL THEN {}
    ELSE LET used == UNION {PartSectors(p) : p \in Logicals(d)}
             meta == ExtendedMetadata(ext)
                         \cup UNION {LogicalMetadata(p, ext) :
                                         p \in Logicals(d)}
         IN Logicals(d)
                \cup Runs(ExtendedMetadata(ext), LOGICAL + METADATA)
                \cup UNION {Runs(LogicalMetadata(p, ext),
                                 LOGICAL + METADATA) : p \in Logicals(d)}
                \cup Runs(PartSectors(ext) \ (used \cup meta), LOGICAL + FREE)

\* A set of nodes with distinct starts, as the sequence in start order.
RECURSIVE SortByStart(_)
SortByStart(S) ==
    IF S = {} THEN <<>>
    ELSE LET m == CHOOSE x \in S : \A y \in S : x.start <= y.start
         IN <<m>> \o SortByStart(S \ {m})

\* The two lists the library keeps, each linked in start order: the
\* part_list of the table, of its top-level nodes, and the part_list of the
\* extended partition, of the nodes inside it.
disk_part_list(d) == SortByStart(TopNodes(d))

ext_part_list(d) == SortByStart(LogicalNodes(d))

\* The node after a node in a list; none after the last one.
After(list, part) ==
    IF \E i \in 1 .. (Len(list) - 1) : list[i] = part
    THEN list[(CHOOSE i \in 1 .. (Len(list) - 1) : list[i] = part) + 1]
    ELSE NULL

\* The fields next and part_list of a node.
part_next(d, part) ==
    IF HasBit(part.type, LOGICAL) THEN After(ext_part_list(d), part)
    ELSE After(disk_part_list(d), part)

part_part_list(d, part) ==
    IF part.type = EXTENDED /\ ext_part_list(d) # <<>>
    THEN Head(ext_part_list(d))
    ELSE NULL

\* ped_disk_next_partition(disk, part), for NULL or a node of the table:
\* the first node of the table; from the extended partition down into its
\* list; along the list; and from the last node inside the extended
\* partition back up to the node after it.
ped_disk_next_partition(d, part) ==
    IF part = NULL
    THEN (IF disk_part_list(d) = <<>> THEN NULL ELSE Head(disk_part_list(d)))
    ELSE IF part.type = EXTENDED
    THEN (IF part_part_list(d, part) # NULL THEN part_part_list(d, part)
          ELSE part_next(d, part))
    ELSE IF part_next(d, part) # NULL THEN part_next(d, part)
    ELSE IF HasBit(part.type, LOGICAL)
    THEN part_next(d, ped_disk_extended_partition(d))
    ELSE NULL

\* The flags of a table: CYLINDER_ALIGNMENT, on msdos, where it starts
\* set; GPT_PMBR_BOOT, on gpt, where it is kept in the label.
CYLINDER_ALIGNMENT == 1
GPT_PMBR_BOOT == 2
DiskFlag == {CYLINDER_ALIGNMENT, GPT_PMBR_BOOT}

DefaultFlags(label_type) ==
    IF label_type = "msdos" THEN {CYLINDER_ALIGNMENT} ELSE {}

ped_disk_is_flag_available(d, flag) ==
    \/ d.type = "msdos" /\ flag = CYLINDER_ALIGNMENT
    \/ d.type = "gpt" /\ flag = GPT_PMBR_BOOT

\* ped_disk_set_flag: 0 for a flag the label type does not have.
ped_disk_set_flag(d, flag, state) ==
    IF ~ped_disk_is_flag_available(d, flag) THEN [ret |-> 0, disk |-> d]
    ELSE [ret |-> 1,
          disk |-> [d EXCEPT !.flags = IF state THEN @ \cup {flag}
                                        ELSE @ \ {flag}]]

ped_disk_get_flag(d, flag) == flag \in d.flags

\* ped_disk_new_fresh: an empty table of the label type.
ped_disk_new_fresh(label_type) ==
    IF label_type \in LabelTypes
    THEN [type |-> label_type, parts |-> {},
          flags |-> DefaultFlags(label_type)]
    ELSE NULL

\* ped_partition_new: a detached partition; none for a geometry that ends
\* before it starts, and none for an extended or logical partition on a
\* label type without extended partitions.
ped_partition_new(d, part_type, start, end) ==
    IF start < 0 \/ end < start THEN NULL
    ELSE IF /\ (HasBit(part_type, EXTENDED) \/ HasBit(part_type, LOGICAL))
            /\ ~HasBit(DiskType_features(d.type), FEATURE_EXTENDED)
    THEN NULL
    ELSE [num |-> -1, type |-> part_type, start |-> start,
          length |-> end - start + 1, name |-> "", boot |-> FALSE]

\* ped_constraint_new_from_max of the region [lo, hi]: start and end inside
\* it.
ped_constraint_new_from_max(lo, hi) ==
    IF lo > hi THEN NULL
    ELSE ped_constraint_new(ped_alignment_any, ped_alignment_any,
                            [start |-> lo, length |-> hi - lo + 1],
                            [start |-> lo, length |-> hi - lo + 1],
                            1, hi - lo + 1)

\* The walk over the other active partitions of the level, in start order:
\* those that start before the geometry, or at or before the space already
\* taken, push the region's start past their end; the next one bounds the
\* region's end.
RECURSIVE OverlapWalk(_, _, _, _)
OverlapWalk(others, min_start, max_end, geom_start) ==
    IF others = <<>> THEN [min_start |-> min_start, max_end |-> max_end]
    ELSE LET lo == Min(Footprint(Head(others)))
             hi == PartEnd(Head(others))
         IN IF lo < geom_start \/ min_start >= lo
            THEN OverlapWalk(Tail(others), hi + 1, max_end, geom_start)
            ELSE [min_start |-> min_start, max_end |-> lo - 1]

\* The region a walk leaves, as a constraint; a logical partition leaves
\* the region's first sectors to its metadata.
WalkConstraint(w, part) ==
    IF HasBit(part.type, LOGICAL)
    THEN ped_constraint_new_from_max(w.min_start + LogicalHeader, w.max_end)
    ELSE ped_constraint_new_from_max(w.min_start, w.max_end)

\* Space available to a partition around a geometry, given its neighbours:
\* a region the partition must lie inside, as a constraint.  A logical
\* partition stays inside the extended one; a primary or extended one
\* stays off the label metadata.
OverlapConstraintIn(d, part, geom, ext) ==
    IF HasBit(part.type, LOGICAL)
    THEN IF ext = NULL THEN NULL
         ELSE WalkConstraint(
                  OverlapWalk(
                      SortByStart({p \in Logicals(d) : p.num # part.num}),
                      ext.start, PartEnd(ext), geom.start),
                  part)
    ELSE WalkConstraint(
             OverlapWalk(SortByStart({p \in Primaries(d) : p.num # part.num}),
                         1, Max(Sectors \ LabelMetadata(d.type)), geom.start),
             part)

OverlapConstraint(d, part, geom) ==
    OverlapConstraintIn(d, part, geom, ped_disk_extended_partition(d))

\* An extended partition keeps its logical partitions and their metadata
\* inside.
ChildrenSpan(lo, hi) ==
    ped_constraint_new(ped_alignment_any, ped_alignment_any,
                       [start |-> 0, length |-> lo + 1],
                       [start |-> hi, length |-> DevLen - hi],
                       1, DevLen)

ChildrenConstraint(d, part) ==
    IF part.type = EXTENDED /\ Logicals(d) # {}
    THEN ChildrenSpan(Min(UNION {Footprint(p) : p \in Logicals(d)}),
                      Max(UNION {Footprint(p) : p \in Logicals(d)}))
    ELSE ped_constraint_any

\* The caller's constraint narrowed to where the partition may go.
PlacementConstraint(d, part, constr, geom) ==
    ped_constraint_intersect(
        ped_constraint_intersect(constr, OverlapConstraint(d, part, geom)),
        ChildrenConstraint(d, part))

\* The number a new partition gets: the lowest free one, from 5 for a
\* logical partition.
NextNum(d, part) ==
    LET first == IF HasBit(part.type, LOGICAL) THEN 5 ELSE 1
    IN Min({n \in first .. (first + MaxParts) :
               \A p \in d.parts : p.num # n})

\* ped_disk_add_partition: the partition is placed at the solution of the
\* narrowed constraint nearest its geometry; 0 when there is none, when a
\* logical partition has no extended partition to go in, or when a second
\* extended partition is added.
PartGeom(part) == [start |-> part.start, length |-> part.length]

AddAt(d, part, sol) ==
    IF \/ part.type = EXTENDED /\ ped_disk_extended_partition(d) # NULL
       \/ sol = NULL
    THEN [ret |-> 0, disk |-> d]
    ELSE [ret |-> 1,
          disk |-> [d EXCEPT !.parts = @ \cup
                       {[part EXCEPT !.num = NextNum(d, part),
                                     !.start = sol.start,
                                     !.length = sol.length]}]]

ped_disk_add_partition(d, part, constr) ==
    AddAt(d, part,
          ped_constraint_solve_nearest(
              PlacementConstraint(d, part, constr, PartGeom(part)),
              PartGeom(part)))

\* ped_disk_set_partition_geom: the partition moves to the solution nearest
\* [start, end]; 0 and no change when there is none.
MoveTo(d, part, sol) ==
    IF part \notin d.parts \/ sol = NULL THEN [ret |-> 0, disk |-> d]
    ELSE [ret |-> 1,
          disk |-> [d EXCEPT !.parts = (@ \ {part}) \cup
                       {[part EXCEPT !.start = sol.start,
                                     !.length = sol.length]}]]

ped_disk_set_partition_geom(d, part, constr, start, end) ==
    MoveTo(d, part,
           ped_constraint_solve_nearest(
               PlacementConstraint(d, part, constr,
                                   [start |-> start, length |-> end - start + 1]),
               [start |-> start, length |-> end - start + 1]))

\* ped_disk_maximize_partition: the partition grows to solve_max of the
\* narrowed constraint.
ped_disk_maximize_partition(d, part, constr) ==
    MoveTo(d, part,
           ped_constraint_solve_max(
               PlacementConstraint(d, part, constr, PartGeom(part))))

\* ped_disk_delete_partition: 0 for a partition that is not in the table
\* and for an extended partition that still holds logical partitions.
ped_disk_delete_partition(d, part) ==
    IF part \notin d.parts \/ (part.type = EXTENDED /\ Logicals(d) # {})
    THEN [ret |-> 0, disk |-> d]
    ELSE [ret |-> 1, disk |-> [d EXCEPT !.parts = @ \ {part}]]

\* ped_disk_delete_all: every partition leaves the table.
ped_disk_delete_all(d) == [ret |-> 1, disk |-> [d EXCEPT !.parts = {}]]

\* ped_disk_minimize_extended_partition: the extended partition shrinks to
\* its logical partitions and their metadata, and goes away when it holds
\* none.  With CYLINDER_ALIGNMENT set the new geometry is rounded outwards
\* to cylinders, which are not modelled: each end keeps up to MaxRound
\* sectors more, inside the geometry it had.  When the table has no
\* extended partition nothing is done, and status is what the library
\* answers.
MaxRound == 1

Roundings == (0 .. MaxRound) \X (0 .. MaxRound)

MinimizeTo(d, ext, lo, hi) ==
    [ret |-> 1,
     disk |-> [d EXCEPT !.parts = (@ \ {ext}) \cup
                  {[ext EXCEPT !.start = lo, !.length = hi - lo + 1]}]]

MinimizeRounded(d, ext, lo, hi, round) ==
    IF CYLINDER_ALIGNMENT \in d.flags
    THEN MinimizeTo(d, ext, Max({ext.start, lo - round[1]}),
                    Min({PartEnd(ext), hi + round[2]}))
    ELSE MinimizeTo(d, ext, lo, hi)

MinimizeIn(d, ext, round, status) ==
    IF ext = NULL THEN [ret |-> status, disk |-> d]
    ELSE IF Logicals(d) = {}
    THEN [ret |-> 1, disk |-> [d EXCEPT !.parts = @ \ {ext}]]
    ELSE MinimizeRounded(d, ext,
                         Min(UNION {Footprint(p) : p \in Logicals(d)}),
                         Max(UNION {Footprint(p) : p \in Logicals(d)}),
                         round)

ped_disk_minimize_extended_partition(d, round, status) ==
    MinimizeIn(d, ped_disk_extended_partition(d), round, status)

(***************************************************************************)
(* The label on the device: native library.  The label is what the device  *)
(* holds in the four regions a partition table is written to: mbr, the     *)
(* primary slots of sector 0; ebr, the chain of the logical partitions     *)
(* inside the extended one; gpt and backup, the two copies of the gpt      *)
(* entries.  A region nothing was written to is the empty sequence, and    *)
(* NULL is a device all of whose regions are empty.                        *)
(***************************************************************************)
RECURSIVE SortByNum(_)
SortByNum(S) ==
    IF S = {} THEN <<>>
    ELSE LET m == CHOOSE x \in S : \A y \in S : x.num <= y.num
         IN <<m>> \o SortByNum(S \ {m})

Blank == [mbr |-> <<>>, ebr |-> <<>>, gpt |-> <<>>, backup |-> <<>>]

Regions(label) == IF label = NULL THEN Blank ELSE label

Canon(regions) == IF regions = Blank THEN NULL ELSE regions

\* The slots of sector 0 and the entries of the gpt, one per partition
\* number.
LabelSlots == 1 .. (MaxParts + 1)

\* A slot of sector 0: <<kind, start, end, boot>>.  It has no room for a
\* name, and none for the flags of the table but the boot flag of the
\* protective slot of a gpt.
EmptySlot == <<"empty", 0, 0, FALSE>>

ProtectiveSlot(boot) == <<"protective", 1, DevLen - 1, boot>>

SlotOf(p) ==
    <<IF p.type = EXTENDED THEN "extended" ELSE "data", p.start, PartEnd(p),
      p.boot>>

\* A gpt entry: <<used, start, end, name, boot>>.
EmptyEntry == <<FALSE, 0, 0, "", FALSE>>

EntryOf(p) == <<TRUE, p.start, PartEnd(p), p.name, p.boot>>

\* A link of the chain of logical partitions: <<start, end, boot>>.
LinkOf(p) == <<p.start, PartEnd(p), p.boot>>

Numbered(S, n) == CHOOSE p \in S : p.num = n

EncodeMsdos(d) ==
    [mbr |-> [n \in LabelSlots |->
                 IF \E p \in Primaries(d) : p.num = n
                 THEN SlotOf(Numbered(Primaries(d), n))
                 ELSE EmptySlot],
     ebr |-> [i \in 1 .. Cardinality(Logicals(d)) |->
                 LinkOf(SortByNum(Logicals(d))[i])],
     gpt |-> <<>>,
     backup |-> <<>>]

GptEntries(d) ==
    [n \in LabelSlots |->
        IF \E p \in d.parts : p.num = n THEN EntryOf(Numbered(d.parts, n))
        ELSE EmptyEntry]

EncodeGpt(d) ==
    [mbr |-> [n \in LabelSlots |->
                 IF n = 1 THEN ProtectiveSlot(GPT_PMBR_BOOT \in d.flags)
                 ELSE EmptySlot],
     ebr |-> <<>>,
     gpt |-> GptEntries(d),
     backup |-> GptEntries(d)]

\* The label a table is written as.
EncodeLabel(d) == IF d.type = "msdos" THEN EncodeMsdos(d) ELSE EncodeGpt(d)

\* The table in the slots of sector 0 and the chain of logical partitions:
\* a primary partition has the number of its slot, the logical ones are
\* numbered from 5 along the chain, which is looked at only from an
\* extended slot.
DecodeMsdos(mbr, ebr) ==
    [type |-> "msdos", flags |-> DefaultFlags("msdos"),
     parts |->
         {[num |-> n,
           type |-> IF mbr[n][1] = "extended" THEN EXTENDED ELSE NORMAL,
           start |-> mbr[n][2], length |-> mbr[n][3] - mbr[n][2] + 1,
           name |-> "", boot |-> mbr[n][4]] :
              n \in {m \in DOMAIN mbr : mbr[m][1] # "empty"}}
         \cup
         (IF \E n \in DOMAIN mbr : mbr[n][1] = "extended"
          THEN {[num |-> 4 + i, type |-> LOGICAL, start |-> ebr[i][1],
                 length |-> ebr[i][2] - ebr[i][1] + 1, name |-> "",
                 boot |-> ebr[i][3]] : i \in DOMAIN ebr}
          ELSE {})]

\* The table in a copy of the gpt entries.
DecodeGpt(entries, pmbr_boot) ==
    [type |-> "gpt",
     flags |-> DefaultFlags("gpt")
                   \cup (IF pmbr_boot THEN {GPT_PMBR_BOOT} ELSE {}),
     parts |->
         {[num |-> n, type |-> NORMAL, start |-> entries[n][2],
           length |-> entries[n][3] - entries[n][2] + 1,
           name |-> entries[n][4], boot |-> entries[n][5]] :
              n \in {m \in DOMAIN entries : entries[m][1]}}]

IsProtective(mbr) == mbr # <<>> /\ mbr[1][1] = "protective"

\* The table a label is read as: a gpt behind a protective slot, from the
\* first copy of the entries or, where that is missing, from the backup;
\* otherwise an msdos table where sector 0 has its slots; none where the
\* label is neither.
DecodeRegions(l) ==
    IF IsProtective(l.mbr)
    THEN (IF l.gpt # <<>> THEN DecodeGpt(l.gpt, l.mbr[1][4])
          ELSE IF l.backup # <<>> THEN DecodeGpt(l.backup, l.mbr[1][4])
          ELSE NULL)
    ELSE IF l.mbr # <<>> THEN DecodeMsdos(l.mbr, l.ebr)
    ELSE NULL

DecodeLabel(label) == DecodeRegions(Regions(label))

\* ped_disk_new: the table read from the device, none without a label.
ped_disk_new(label) == IF label = NULL THEN NULL ELSE DecodeLabel(label)

\* ped_partition_set_name and ped_partition_set_flag, for a partition of
\* the table; the one flag modelled is BOOT, available on both label types.
ped_partition_set_name(d, part, name) ==
    IF part \notin d.parts THEN [ret |-> 0, disk |-> d]
    ELSE [ret |-> 1,
          disk |-> [d EXCEPT !.parts = (@ \ {part}) \cup
                       {[part EXCEPT !.name = name]}]]

ped_partition_is_flag_available(part) == TRUE

ped_partition_set_flag(d, part, state) ==
    IF part \notin d.parts THEN [ret |-> 0, disk |-> d]
    ELSE [ret |-> 1,
          disk |-> [d EXCEPT !.parts = (@ \ {part}) \cup
                       {[part EXCEPT !.boot = state]}]]

\* The writes of a commit, in their order, each the set of regions it
\* writes: what is left of a label of the other type is wiped first, then
\* an msdos table writes the chain of logical partitions and sector 0, and
\* a gpt writes sector 0, the entries and their backup.
CommitOrder(label_type) ==
    IF label_type = "msdos" THEN <<{"gpt", "backup"}, {"ebr"}, {"mbr"}>>
    ELSE <<{"ebr"}, {"mbr"}, {"gpt"}, {"backup"}>>

MaxWrites == 4

\* The label after the first written writes of new over old.
WrittenOver(old, new, order, written) ==
    LET done == UNION {order[i] : i \in 1 .. Min({written, Len(order)})} IN
    [mbr |-> IF "mbr" \in done THEN new.mbr ELSE old.mbr,
     ebr |-> IF "ebr" \in done THEN new.ebr ELSE old.ebr,
     gpt |-> IF "gpt" \in done THEN new.gpt ELSE old.gpt,
     backup |-> IF "backup" \in done THEN new.backup ELSE old.backup]

\* ped_disk_commit_to_dev: the writes are made one after the other, and
\* the first that fails ends the commit with 0; what was written before it
\* stays written.  written is the number of writes the device takes.
ped_disk_commit_to_dev(d, label, written) ==
    [ret |-> IF written >= Len(CommitOrder(d.type)) THEN 1 ELSE 0,
     label |-> Canon(WrittenOver(Regions(label), EncodeLabel(d),
                                 CommitOrder(d.type), written))]

(***************************************************************************)
(* Disk and Partition: the Python wrappers.  A call on a table gives back  *)
(* [exc, disk]: the exception raised and the table afterwards.             *)
(***************************************************************************)
\* Partition.is_valid: a non-null handle of an active partition.
Partition_is_valid(part) == part # NULL /\ PartitionType_is_valid(part.type)

\* Device.new_table
Device_new_table(label_type) == ped_disk_new_fresh(label_type)

\* Device.read_table
Device_read_table(label) == ped_disk_new(label)

\* Disk.partitions_list('all' | 'active' | 'free')
IsActiveNode(p) == Partition_is_valid(p)

\* A free test on the FREE flag alone, whatever else is set.
IsFreeNode_any(p) == HasBit(p.type, FREE)

IsFreeNode(p) == p.type = FREE

\* A test that lets only the active nodes through, whatever the type asked
\* for.
ListTest_active_only(type, p) == IF IsActiveNode(p) THEN "yield" ELSE "next"

\* A test that keeps the nodes inside the extended partition out of 'all'.
ListTest_top_level(type, p) ==
    IF type = "all"
    THEN (IF HasBit(p.type, LOGICAL) THEN "next" ELSE "yield")
    ELSE IF type = "active" THEN (IF IsActiveNode(p) THEN "yield" ELSE "next")
    ELSE IF type = "free" THEN (IF IsFreeNode(p) THEN "yield" ELSE "next")
    ELSE "raise"

\* What the loop of partitions_list does with a node: it yields it, goes on
\* to the next one, or raises for a type it does not know.
ListTest(type, p) ==
    IF type = "all" THEN "yield"
    ELSE IF type = "active" THEN (IF IsActiveNode(p) THEN "yield" ELSE "next")
    ELSE IF type = "free" THEN (IF IsFreeNode(p) THEN "yield" ELSE "next")
    ELSE "raise"

\* The loop of partitions_list from a node on, up to the next yield, the
\* raise, or the end of the walk: the node the generator is suspended at,
\* or the exception that ends it.
RECURSIVE ListLoop(_, _, _)
ListLoop(d, type, part) ==
    IF part = NULL THEN [part |-> NULL, exc |-> "StopIteration"]
    ELSE IF ListTest(type, part) = "yield"
    THEN [part |-> part, exc |-> "none"]
    ELSE IF ListTest(type, part) = "raise"
    THEN [part |-> NULL, exc |-> "Exception"]
    ELSE ListLoop(d, type, ped_disk_next_partition(d, part))

\* A generator that has not run yet.
START == [unstarted |-> TRUE]

\* Disk.partitions_list(type): one resume of the generator, from its
\* start or from the node it was suspended at.  The first resume of a
\* generator on a null table ends it; every other one asks the library for
\* the node after the one held, in the table as it is then.
Disk_partitions_list(d, type, held) ==
    IF held = START
    THEN IF d = NULL THEN [part |-> NULL, exc |-> "StopIteration"]
         ELSE ListLoop(d, type, ped_disk_next_partition(d, NULL))
    ELSE ListLoop(d, type, ped_disk_next_partition(d, held))

\* list(generator) on a table nobody touches meanwhile: the nodes yielded
\* up to the end, or the exception, which loses them.
ListCons(p, rest) ==
    IF rest.exc # "none" THEN rest
    ELSE [val |-> <<p>> \o rest.val, exc |-> "none"]

RECURSIVE ListFrom(_, _, _)
ListFrom(d, type, r) ==
    IF r.exc = "StopIteration" THEN [val |-> <<>>, exc |-> "none"]
    ELSE IF r.exc # "none" THEN [val |-> <<>>, exc |-> r.exc]
    ELSE ListCons(r.part,
                  ListFrom(d, type, Disk_partitions_list(d, type, r.part)))

Disk_list(d, type) ==
    IF d = NULL THEN [val |-> <<>>, exc |-> "none"]
    ELSE ListFrom(d, type, Disk_partitions_list(d, type, START))

\* Disk.partitions, Disk.active_partitions and Disk.free_partitions
Disk_partitions(d) == Disk_list(d, "all").val

Disk_active_partitions(d) == Disk_list(d, "active").val

Disk_free_partitions(d) == Disk_list(d, "free").val

\* Disk.new_partition
Disk_new_partition(d, part_type, start, end) ==
    IF d = NULL THEN Raise("InvalidObjectError")
    ELSE Ok(ped_partition_new(d, part_type, start, end))

\* Partition.geometry: a copy of the partition's region made by the
\* library's constructor, then duplicated.  duplicate raises on the null
\* handle the constructor gives for a region it refuses.
Partition_geometry(part) ==
    IF Geometry(part.start, part.length) = NULL
    THEN Raise("InvalidObjectError")
    ELSE Ok(Geometry(part.start, part.length))

\* The constraint Disk.add_partition builds when it is given none.
add_partition_default_constraint(part) ==
    IF Partition_geometry(part).exc # "none"
    THEN Raise(Partition_geometry(part).exc)
    ELSE
    LET geometry == Partition_geometry(part).val IN
    Constraint_new(Alignment(Geometry_start(geometry), 0),
                   Alignment(Geometry_end(geometry), 0),
                   Geometry(Geometry_start(geometry), Geometry_start(geometry)),
                   Geometry(Geometry_end(geometry), Geometry_end(geometry)),
                   Geometry_length(geometry), Geometry_length(geometry))

\* The constraint Disk.add_partition hands to the library: the caller's, or
\* the one built here.
add_partition_constraint(part, constr) ==
    IF constr = NULL THEN add_partition_default_constraint(part)
    ELSE Ok(constr)

\* A native call's return value as the wrapper's outcome: 0 raises
\* PartedException.
Raising(r) ==
    [exc |-> IF r.ret = 0 THEN "PartedException" ELSE "none", disk |-> r.disk]

\* The call into the library, given the constraint built.
add_partition_call(d, part, built) ==
    IF built.exc # "none" THEN [exc |-> built.exc, disk |-> d]
    ELSE Raising(ped_disk_add_partition(d, part, built.val))

add_partition_call_ignore_ret(d, part, built) ==
    IF built.exc # "none" THEN [exc |-> built.exc, disk |-> d]
    ELSE [exc |-> "none",
          disk |-> ped_disk_add_partition(d, part, built.val).disk]

Disk_add_partition_ignore_ret(d, part, constr) ==
    IF d = NULL THEN [exc |-> "InvalidObjectError", disk |-> d]
    ELSE IF ~Partition_is_valid(part)
    THEN [exc |-> "InvalidPartitionError", disk |-> d]
    ELSE add_partition_call_ignore_ret(d, part,
                                       add_partition_constraint(part, constr))

\* Disk.add_partition
Disk_add_partition(d, part, constr) ==
    IF d = NULL THEN [exc |-> "InvalidObjectError", disk |-> d]
    ELSE IF ~Partition_is_valid(part)
    THEN [exc |-> "InvalidPartitionError", disk |-> d]
    ELSE add_partition_call(d, part, add_partition_constraint(part, constr))

\* Disk.create_partition: new_partition, then add_partition.
create_partition_add(d, part, constr) ==
    IF part.exc # "none" THEN [exc |-> part.exc, disk |-> d]
    ELSE Disk_add_partition(d, part.val, constr)

Disk_create_partition(d, part_type, start, end, constr) ==
    create_partition_add(d, Disk_new_partition(d, part_type, start, end),
                         constr)

\* Disk.delete_partition
Disk_delete_partition(d, part) ==
    IF d = NULL THEN [exc |-> "InvalidObjectError", disk |-> d]
    ELSE IF ~Partition_is_valid(part)
    THEN [exc |-> "InvalidPartitionError", disk |-> d]
    ELSE Raising(ped_disk_delete_partition(d, part))

\* Disk.delete_all_partitions
Disk_delete_all_partitions(d) ==
    IF d = NULL THEN [exc |-> "InvalidObjectError", disk |-> d]
    ELSE IF ped_disk_delete_all(d).ret = 0
    THEN [exc |-> "PartedException", disk |-> d]
    ELSE [exc |-> "none", disk |-> ped_disk_delete_all(d).disk]

\* Disk.is_flag_available, Disk.get_flag, Disk.flags and Disk.set_flag: a
\* flag the label type does not have reads as unset and is not set.
Disk_is_flag_available(d, flag) ==
    IF d = NULL THEN Raise("InvalidObjectError")
    ELSE Ok(ped_disk_is_flag_available(d, flag))

Disk_get_flag(d, flag) ==
    IF d = NULL THEN Raise("InvalidObjectError")
    ELSE IF Disk_is_flag_available(d, flag).val
    THEN Ok(ped_disk_get_flag(d, flag))
    ELSE Ok(FALSE)

Disk_flags(d) ==
    IF d = NULL THEN {} ELSE {x \in DiskFlag : Disk_get_flag(d, x).val}

Disk_set_flag(d, flag, state) ==
    IF d = NULL THEN [exc |-> "InvalidObjectError", disk |-> d]
    ELSE IF Disk_is_flag_available(d, flag).val
    THEN Raising(ped_disk_set_flag(d, flag, state))
    ELSE [exc |-> "none", disk |-> d]

\* Disk.set_partition_geometry, for a handle of this table.
Disk_set_partition_geometry(d, part, const, sector_start, sector_end) ==
    IF d = NULL THEN [exc |-> "InvalidObjectError", disk |-> d]
    ELSE IF part = NULL \/ const = NULL
    THEN [exc |-> "PartedException", disk |-> d]
    ELSE IF \/ sector_start < 0
            \/ sector_end < 0
            \/ sector_end > DevLen
            \/ sector_start > DevLen
            \/ sector_start > sector_end
    THEN [exc |-> "PartedException", disk |-> d]
    ELSE Raising(ped_disk_set_partition_geom(d, part, const, sector_start,
                                             sector_end))

\* Disk.maximize_partition_geometry
Disk_maximize_partition_geometry(d, part, constr) ==
    IF d = NULL THEN [exc |-> "InvalidObjectError", disk |-> d]
    ELSE Raising(ped_disk_maximize_partition(d, part, constr))

\* A minimize that does not look at what the library returned.
Disk_minimize_extended_partition_unchecked(d, round, status) ==
    IF d = NULL THEN [exc |-> "InvalidObjectError", disk |-> d]
    ELSE IF ~HasBit(DiskType_features(d.type), FEATURE_EXTENDED)
    THEN [exc |-> "InvalidPartitionError", disk |-> d]
    ELSE [exc |-> "none",
          disk |-> ped_disk_minimize_extended_partition(d, round, status).disk]

\* Disk.minimize_extended_partition; round and status are the library's:
\* how it rounds the new geometry, and what it answers when the table has
\* no extended partition.
Disk_minimize_extended_partition(d, round, status) ==
    IF d = NULL THEN [exc |-> "InvalidObjectError", disk |-> d]
    ELSE IF ~HasBit(DiskType_features(d.type), FEATURE_EXTENDED)
    THEN [exc |-> "InvalidPartitionError", disk |-> d]
    ELSE Raising(ped_disk_minimize_extended_partition(d, round, status))

\* A setter that hands every name to the library, whatever the label type.
Partition_set_name_any_label(d, part, name) ==
    IF ~Partition_is_valid(part) THEN [exc |-> "none", disk |-> d]
    ELSE [exc |-> "none", disk |-> ped_partition_set_name(d, part, name).disk]

\* Partition.name setter: nothing is done for an invalid partition and on
\* a label type without partition names.
Partition_set_name(d, part, name) ==
    IF ~Partition_is_valid(part)
           \/ ~HasBit(DiskType_features(d.type), FEATURE_NAME)
    THEN [exc |-> "none", disk |-> d]
    ELSE [exc |-> "none", disk |-> ped_partition_set_name(d, part, name).disk]

\* Partition.set_flag
Partition_set_flag(d, part, state) ==
    IF part = NULL THEN [exc |-> "InvalidObjectError", disk |-> d]
    ELSE IF ~Partition_is_valid(part)
    THEN [exc |-> "InvalidPartitionError", disk |-> d]
    ELSE IF ped_partition_is_flag_available(part)
    THEN [exc |-> "none", disk |-> ped_partition_set_flag(d, part, state).disk]
    ELSE [exc |-> "none", disk |-> d]

\* An outcome that takes whatever the library returns for success.
commit_outcome_silent(r) ==
    [exc |-> "none", label |-> r.label, native |-> TRUE]

\* A native commit's return value as the wrapper's outcome: 0 raises
\* IOError.
commit_outcome(r) ==
    [exc |-> IF r.ret = 0 THEN "IOError" ELSE "none", label |-> r.label,
     native |-> TRUE]

commit_then_check(access, r) ==
    [exc |-> IF access # "none" THEN access
             ELSE IF r.ret = 0 THEN "IOError" ELSE "none",
     label |-> r.label, native |-> TRUE]

Disk_commit_to_dev_late_check(d, label, written) ==
    IF d = NULL
    THEN [exc |-> "InvalidObjectError", label |-> label, native |-> FALSE]
    ELSE commit_then_check(Device_wants_access(TRUE),
                           ped_disk_commit_to_dev(d, label, written))

\* A commit that does not ask for access to the device.
Disk_commit_to_dev_unchecked(d, label, written) ==
    IF d = NULL
    THEN [exc |-> "InvalidObjectError", label |-> label, native |-> FALSE]
    ELSE commit_outcome(ped_disk_commit_to_dev(d, label, written))

\* Disk.commit_to_dev: [exc, label, native], the exception raised, the
\* label on the device afterwards, and whether the native commit was
\* called.
Disk_commit_to_dev(d, label, written) ==
    IF d = NULL
    THEN [exc |-> "InvalidObjectError", label |-> label, native |-> FALSE]
    ELSE IF Device_wants_access(TRUE) # "none"
    THEN [exc |-> Device_wants_access(TRUE), label |-> label,
          native |-> FALSE]
    ELSE commit_outcome(ped_disk_commit_to_dev(d, label, written))

(***************************************************************************)
(* Spec: a table is created on the device and edited in memory.            *)
(***************************************************************************)
Init == Idle /\ call = NULL

\* The handles a caller can hold on a table: every node of its list.
Handles(d) == IF d = NULL THEN {} ELSE TopNodes(d) \cup LogicalNodes(d)

\* The handles the resizing calls are made on: the partitions, and the
\* first node of the list, which is none.
ResizeHandles(d) ==
    IF d = NULL THEN {} ELSE d.parts \cup {ped_disk_next_partition(d, NULL)}

\* The constraints the edits are made under: any geometry; even starts with
\* odd ends; the whole device, which no table has room for.
AlignedConstraint ==
    ped_constraint_new(Alignment(0, 2), Alignment(1, 2),
                       Geometry(0, DevLen), Geometry(0, DevLen), 2, DevLen)

WholeConstraint ==
    ped_constraint_new(Alignment(0, 1), Alignment(0, 1),
                       Geometry(0, DevLen), Geometry(0, DevLen),
                       DevLen, DevLen)

EditConstraints == {Constraint_any, AlignedConstraint}

EditTypes == {NORMAL, LOGICAL, EXTENDED}

\* The geometries asked for: up to MaxSpan sectors anywhere on the device.
EditRanges ==
    {se \in Sectors \X Sectors : se[1] <= se[2] /\ se[2] - se[1] < MaxSpan}

\* What create_partition is called with: every type at every range without
\* a constraint and under any constraint, primary partitions under the
\* other constraints as well, a partition of free-space type, and a
\* partition that ends beyond the device.
CreateInputs ==
    (EditTypes \X EditRanges \X {NULL, Constraint_any})
        \cup ({NORMAL} \X EditRanges \X {AlignedConstraint, WholeConstraint})
        \cup {<<FREE, <<1, 1>>, Constraint_any>>}
        \cup {<<NORMAL, <<DevLen - 1, DevLen>>, NULL>>}

\* The ranges a resize asks for: some inside the device, and the ones the
\* wrapper turns down.
ResizeRanges ==
    {<<1, 2>>, <<1, DevLen - 1>>, <<2, 3>>, <<3, DevLen - 2>>, <<0, DevLen>>,
     <<-1, 2>>, <<3, 2>>, <<1, DevLen + 1>>}

UnchangedDevice ==
    UNCHANGED <<sectors, open_count, read_only, external_mode, dev_label,
                floating, handles, heap>>

\* The active partitions a partition shares its nesting level with.
LevelMates(d, part) ==
    IF HasBit(part.type, LOGICAL) THEN Logicals(d) ELSE Primaries(d)

\* Whether an add cannot be placed: a constraint is handed to the library,
\* and every geometry it accepts overlaps a partition of the level (none at
\* all when the constraint has no solution).
BlockedBy(mates, built) ==
    /\ built.exc = "none"
    /\ \A g \in AllGeoms :
           ped_constraint_is_solution(built.val, g)
               => \E p \in mates : g.start <= PartEnd(p) /\ p.start <= GeomEnd(g)

Blocked(d, part, constr) ==
    BlockedBy(LevelMates(d, part), add_partition_constraint(part, constr))

\* A wrapper's outcome becomes the table and the result.
Returns(op, r) ==
    /\ disk' = r.disk
    /\ result' = Res(op, r.exc)

NewTable(label_type) ==
    /\ disk' = Device_new_table(label_type)
    /\ result' = Res("new_table", "none")
    /\ call' = NULL
    /\ UnchangedDevice

\* What is recorded of an add: whether it could be placed.
AddCall(d, part, constr) ==
    IF part.exc = "none" /\ Partition_is_valid(part.val)
    THEN [op |-> "add_partition", blocked |-> Blocked(d, part.val, constr)]
    ELSE NULL

\* Disk.create_partition
CreatePartition(part_type, start, end, constr) ==
    /\ disk # NULL => Cardinality(disk.parts) < MaxParts
    /\ Returns("create_partition",
               Disk_create_partition(disk, part_type, start, end, constr))
    /\ call' = AddCall(disk, Disk_new_partition(disk, part_type, start, end),
                       constr)
    /\ UnchangedDevice

DeletePartition(part) ==
    /\ Returns("delete_partition", Disk_delete_partition(disk, part))
    /\ call' = NULL
    /\ UnchangedDevice

SetPartitionGeometry(part, constr, start, end) ==
    /\ Returns("set_partition_geometry",
               Disk_set_partition_geometry(disk, part, constr, start, end))
    /\ call' = NULL
    /\ UnchangedDevice

MaximizePartition(part, constr) ==
    /\ Returns("maximize_partition_geometry",
               Disk_maximize_partition_geometry(disk, part, constr))
    /\ call' = NULL
    /\ UnchangedDevice

\* Disk.minimize_extended_partition; the call keeps what the library
\* answered.
MinimizeExtended(round, status) ==
    /\ Returns("minimize_extended_partition",
               Disk_minimize_extended_partition(disk, round, status))
    /\ call' = [op |-> "minimize_extended_partition", round |-> round,
                status |-> status, blocked |-> FALSE]
    /\ UnchangedDevice

DeleteAllPartitions ==
    /\ Returns("delete_all_partitions", Disk_delete_all_partitions(disk))
    /\ call' = NULL
    /\ UnchangedDevice

\* Disk.set_flag
SetDiskFlag(flag, state) ==
    /\ Returns("Disk.set_flag", Disk_set_flag(disk, flag, state))
    /\ call' = NULL
    /\ UnchangedDevice

Next ==
    \/ \E label_type \in LabelTypes : NewTable(label_type)
    \/ \E in \in CreateInputs :
           CreatePartition(in[1], in[2][1], in[2][2], in[3])
    \/ \E part \in Handles(disk) : DeletePartition(part)
    \/ \E part \in ResizeHandles(disk), constr \in EditConstraints,
          se \in ResizeRanges :
           SetPartitionGeometry(part, constr, se[1], se[2])
    \/ \E part \in ResizeHandles(disk),
          constr \in EditConstraints \cup {WholeConstraint} :
           MaximizePartition(part, constr)
    \/ \E round \in Roundings, status \in {0, 1} :
           MinimizeExtended(round, status)
    \/ DeleteAllPartitions

Spec == Init /\ [][Next]_vars


(***************************************************************************)
(* Properties of the table under Spec.                                     *)
(***************************************************************************)
\* No two active partitions of one nesting level share a sector.
NoOverlap(d) ==
    d # NULL =>
        \A p, q \in d.parts :
            (p # q /\ HasBit(p.type, LOGICAL) = HasBit(q.type, LOGICAL))
                => PartSectors(p) \cap PartSectors(q) = {}

\* C4: after every call on the table, successful or failed, no two active
\* partitions of the same nesting level overlap; and an add whose
\* constraint has no solution, or only solutions that overlap an active
\* partition of that level, raises PartedException and leaves the table as
\* it was.
C4_NoOverlapAndBlockedAddRaises ==
    [][/\ NoOverlap(disk')
       /\ (call' # NULL /\ call'.blocked)
              => (result'.exc = "PartedException" /\ disk' = disk)]_vars

C4_Witness ==
    /\ call # NULL
    /\ call.blocked
    /\ result = Res("create_partition", "PartedException")
    /\ disk # NULL
    /\ disk.parts # {}

\* The nodes of a list are in increasing start order, share no sector and
\* together make up S.
Tiles(L, S) ==
    /\ \A i \in 1 .. (Len(L) - 1) : L[i].start < L[i + 1].start
    /\ \A i, j \in 1 .. Len(L) :
           i # j => PartSectors(L[i]) \cap PartSectors(L[j]) = {}
    /\ UNION {PartSectors(L[i]) : i \in 1 .. Len(L)} = S

IsLogicalNode(p) == HasBit(p.type, LOGICAL)

IsTopNode(p) == ~HasBit(p.type, LOGICAL)

\* C5 over the whole list: the nodes of partitions_list('all') are in
\* increasing start order, do not overlap and cover every sector of the
\* device.
C5_AllListTilesDevice ==
    disk # NULL => Tiles(Disk_partitions(disk), Sectors)

ExtendedSectors(d) ==
    IF ped_disk_extended_partition(d) = NULL THEN {}
    ELSE PartSectors(ped_disk_extended_partition(d))

NonDecreasing(L) == \A i \in 1 .. (Len(L) - 1) : L[i].start <= L[i + 1].start

\* C5: in every table state the nodes of partitions_list('all') are in
\* non-decreasing start order; the nodes without the LOGICAL bit are in
\* increasing start order, do not overlap and cover every sector of the
\* device; the nodes with the LOGICAL bit are in increasing start order, do
\* not overlap and cover exactly the sectors of the extended partition.
C5_AllListTilesByLevel ==
    disk # NULL =>
        /\ NonDecreasing(Disk_partitions(disk))
        /\ Tiles(SelectSeq(Disk_partitions(disk), IsTopNode),
                 Sectors)
        /\ Tiles(SelectSeq(Disk_partitions(disk), IsLogicalNode),
                 ExtendedSectors(disk))

C5_Witness ==
    /\ disk # NULL
    /\ result.exc = "none"
    /\ \E p \in disk.parts : p.type = EXTENDED
    /\ \E p \in disk.parts : p.type = LOGICAL
    /\ Len(Disk_partitions(disk)) > Cardinality(disk.parts) + 2

(***************************************************************************)
(* SpecDefault: the constraint add_partition builds for a detached         *)
(* partition, for every active type and every geometry inside the device.  *)
(***************************************************************************)
DetachedPartitions ==
    {ped_partition_new(ped_disk_new_fresh("msdos"), t, se[1], se[2]) :
        t \in EditTypes, se \in {x \in Sectors \X Sectors : x[1] <= x[2]}}

InitDefault ==
    /\ sectors = [i \in Sectors |-> i + 1]
    /\ open_count = 0
    /\ read_only = FALSE
    /\ external_mode = FALSE
    /\ dev_label = NULL
    /\ disk = ped_disk_new_fresh("msdos")
    /\ floating \in DetachedPartitions
    /\ handles = <<>>
    /\ heap = <<>>
    /\ result = Res("new_partition", "none")
    /\ call = NULL

BuildDefault ==
    /\ call = NULL
    /\ call' = [op |-> "default_constraint",
                built |-> add_partition_default_constraint(floating)]
    /\ UNCHANGED <<sectors, open_count, read_only, external_mode, dev_label,
                   disk, floating, handles, heap, result>>

NextDefault == BuildDefault

SpecDefault == InitDefault /\ [][NextDefault]_vars

\* C10: the constraint built for a detached active partition at [s, e]
\* inside the device is valid and is the exact constraint of [s, e]: start
\* and end alignment (s, 0) and (e, 0), start and end range of the one
\* sector s and the one sector e, minimum and maximum size e - s + 1.
C10_DefaultIsExact ==
    (call # NULL /\ call.op = "default_constraint") =>
        /\ call.built.exc = "none"
        /\ call.built.val # NULL
        /\ call.built.val.start_align = [offset |-> floating.start, grain_size |-> 0]
        /\ call.built.val.end_align = [offset |-> PartEnd(floating), grain_size |-> 0]
        /\ call.built.val.start_range = [start |-> floating.start, length |-> 1]
        /\ call.built.val.end_range = [start |-> PartEnd(floating), length |-> 1]
        /\ call.built.val.min_size = floating.length
        /\ call.built.val.max_size = floating.length


(***************************************************************************)
(* SpecCommit: the device is opened and closed; a table is read from it or *)
(* made fresh, holds one partition that is created, resized, named,        *)
(* flagged and deleted, and is committed; the write of a commit may fail.  *)
(***************************************************************************)
ReadTable ==
    /\ disk' = Device_read_table(dev_label)
    /\ result' = Res("read_table", "none")
    /\ call' = NULL
    /\ UnchangedDevice

SetName(part, name) ==
    /\ Returns("name", Partition_set_name(disk, part, name))
    /\ call' = NULL
    /\ UnchangedDevice

SetFlag(part, state) ==
    /\ Returns("set_flag", Partition_set_flag(disk, part, state))
    /\ call' = NULL
    /\ UnchangedDevice

Committed(r) ==
    /\ dev_label' = r.label
    /\ result' = Res("commit_to_dev", r.exc)

Commit(written) ==
    /\ Committed(Disk_commit_to_dev(disk, dev_label, written))
    /\ UNCHANGED <<sectors, open_count, read_only, external_mode, disk,
                   floating, handles, heap, call>>

Parts(d) == IF d = NULL THEN {} ELSE d.parts

NextCommit ==
    \/ \E mode \in {"r", "rw"} : open_count = 0 /\ DevOpen(mode)
    \/ DevClose
    \/ ReadTable
    \/ \E label_type \in LabelTypes : NewTable(label_type)
    \/ disk # NULL /\ disk.parts = {} /\ CreatePartition(NORMAL, 1, 2, NULL)
    \/ \E part \in Parts(disk) : DeletePartition(part)
    \/ \E part \in Parts(disk) :
           SetPartitionGeometry(part, Constraint_any, 2, 3)
    \/ \E part \in Parts(disk) : MaximizePartition(part, Constraint_any)
    \/ \E part \in Parts(disk) : SetName(part, "a")
    \/ \E part \in Parts(disk) : SetFlag(part, TRUE)
    \/ DeleteAllPartitions
    \/ \E flag \in DiskFlag, state \in BOOLEAN : SetDiskFlag(flag, state)
    \/ \E written \in 0 .. MaxWrites : Commit(written)

SpecCommit == Init /\ [][NextCommit]_vars

WholeLabel(label) ==
    \/ label = NULL
    \/ /\ DecodeLabel(label) # NULL
       /\ EncodeLabel(DecodeLabel(label)) = label

RegionWise(label, old, new) ==
    /\ Regions(label).mbr \in {Regions(old).mbr, Regions(new).mbr}
    /\ Regions(label).ebr \in {Regions(old).ebr, Regions(new).ebr}
    /\ Regions(label).gpt \in {Regions(old).gpt, Regions(new).gpt}
    /\ Regions(label).backup \in {Regions(old).backup, Regions(new).backup}

MaxHandles == 2     \* Partition objects the caller holds at one time
MaxNatives == 2     \* native partitions allocated in one run

HandleNames == 1 .. MaxHandles

Addresses == {[addr |-> a] : a \in 1 .. MaxNatives}

\* Partition.__init__
Partition(partition) == [_partition |-> partition, _destroyable |-> FALSE]

\* util.make_destroyable
make_destroyable(obj) == [obj EXCEPT !._destroyable = TRUE]

\* Partition.__bool__
Partition_bool(p) == p._partition # NULL

\* The native partition a pointer leads to.
Native(hp, ptr) == hp[ptr.addr]

IsFreed(hp, ptr) == ptr # NULL /\ Native(hp, ptr).where = "freed"

\* Partition.obj, read through the pointer: the fields of the native
\* partition, or NULL.
Partition_obj(hp, p) ==
    IF p._partition = NULL THEN NULL ELSE Native(hp, p._partition).part

\* Partition.is_valid of an object
Partition_is_valid_obj(hp, p) == Partition_is_valid(Partition_obj(hp, p))

\* ped_partition_destroy
ped_partition_destroy(hp, ptr) ==
    [hp EXCEPT ![ptr.addr] = [@ EXCEPT !.where = "freed",
                                       !.destroyed = @ + 1]]

\* Partition.__del__: only an owning object with a pointer destroys.
Partition_del(hp, p) ==
    IF p._destroyable /\ Partition_bool(p)
    THEN ped_partition_destroy(hp, p._partition)
    ELSE hp

\* The addresses not yet handed out by the allocator.
FreeAddresses(hp) == {a \in Addresses : a.addr \notin DOMAIN hp}

\* Disk.new_partition of an object: the native partition is allocated
\* detached, and the object made owning even when the pointer is NULL.
New_partition_at(hp, r, ptr) ==
    IF r.exc # "none" THEN [exc |-> r.exc, obj |-> NULL, heap |-> hp]
    ELSE IF r.val = NULL
    THEN [exc |-> "none", obj |-> make_destroyable(Partition(NULL)),
          heap |-> hp]
    ELSE [exc |-> "none", obj |-> make_destroyable(Partition(ptr)),
          heap |-> (ptr.addr :> [part |-> r.val, where |-> "detached",
                                 destroyed |-> 0]) @@ hp]

Disk_new_partition_obj(d, hp, ptr, part_type, start, end) ==
    New_partition_at(hp, Disk_new_partition(d, part_type, start, end), ptr)

\* Disk.get_partition of an object: never owning.
Disk_get_partition_obj(d, hp, num) ==
    IF d = NULL THEN [exc |-> "InvalidObjectError", obj |-> NULL]
    ELSE IF ped_disk_get_partition(d, num) = NULL
    THEN [exc |-> "none", obj |-> Partition(NULL)]
    ELSE [exc |-> "none",
          obj |-> Partition(CHOOSE a \in Addresses :
                      /\ a.addr \in DOMAIN hp
                      /\ hp[a.addr].where = "table"
                      /\ hp[a.addr].part = ped_disk_get_partition(d, num))]

\* Disk.add_partition of an object: after the native call has succeeded the
\* native partition is the table's, and the object is no longer owning.
Added_to_disk(d, hp, p, r) ==
    IF r.exc # "none"
    THEN [exc |-> r.exc, disk |-> d, obj |-> p, heap |-> hp]
    ELSE [exc |-> "none", disk |-> r.disk,
          obj |-> [p EXCEPT !._destroyable = FALSE],
          heap |-> [hp EXCEPT ![p._partition.addr] =
                       [@ EXCEPT !.where = "table",
                                 !.part = CHOOSE x \in r.disk.parts :
                                              x \notin d.parts]]]

Disk_add_partition_obj(d, hp, p, constr) ==
    Added_to_disk(d, hp, p,
                  Disk_add_partition(d, Partition_obj(hp, p), constr))

\* Disk.delete_partition of an object: after the native call has succeeded
\* the native partition is destroyed, and the object holds no pointer and
\* is not owning.
Deleted_from_disk(d, hp, p, r) ==
    IF r.exc # "none"
    THEN [exc |-> r.exc, disk |-> d, obj |-> p, heap |-> hp]
    ELSE [exc |-> "none", disk |-> r.disk,
          obj |-> [p EXCEPT !._partition = NULL, !._destroyable = FALSE],
          heap |-> ped_partition_destroy(hp, p._partition)]

Disk_delete_partition_obj(d, hp, p) ==
    Deleted_from_disk(d, hp, p,
                      Disk_delete_partition(d, Partition_obj(hp, p)))

\* Partition.delete
Partition_delete(d, hp, p) ==
    IF ~Partition_bool(p)
    THEN [exc |-> "InvalidObjectError", disk |-> d, obj |-> p, heap |-> hp]
    ELSE IF ~Partition_is_valid_obj(hp, p)
    THEN [exc |-> "InvalidPartitionError", disk |-> d, obj |-> p,
          heap |-> hp]
    ELSE Disk_delete_partition_obj(d, hp, p)

\* Partition.add_to_disk
Partition_add_to_disk(d, hp, p, constr) ==
    IF ~Partition_bool(p)
    THEN [exc |-> "InvalidObjectError", disk |-> d, obj |-> p, heap |-> hp]
    ELSE IF ~Partition_is_valid_obj(hp, p)
    THEN [exc |-> "InvalidPartitionError", disk |-> d, obj |-> p,
          heap |-> hp]
    ELSE Disk_add_partition_obj(d, hp, p, constr)

\* Partition.set_geometry
Partition_set_geometry(d, hp, p, const, sector_start, sector_end) ==
    IF ~Partition_bool(p) THEN [exc |-> "InvalidObjectError", disk |-> d]
    ELSE IF ~Partition_is_valid_obj(hp, p)
    THEN [exc |-> "InvalidPartitionError", disk |-> d]
    ELSE Disk_set_partition_geometry(d, Partition_obj(hp, p), const,
                                     sector_start, sector_end)

\* Partition.maximize
Partition_maximize(d, hp, p, constr) ==
    IF ~Partition_bool(p) THEN [exc |-> "InvalidObjectError", disk |-> d]
    ELSE IF ~Partition_is_valid_obj(hp, p)
    THEN [exc |-> "InvalidPartitionError", disk |-> d]
    ELSE Disk_maximize_partition_geometry(d, Partition_obj(hp, p), constr)

\* Partition.set_flag and the Partition.name setter of an object.
Partition_set_flag_obj(d, hp, p, state) ==
    Partition_set_flag(d, Partition_obj(hp, p), state)

Partition_set_name_obj(d, hp, p, name) ==
    Partition_set_name(d, Partition_obj(hp, p), name)

(***************************************************************************)
(* SpecHandle: the caller holds Partition objects on a fresh msdos table:  *)
(* objects made by new_partition and by get_partition, added, deleted,     *)
(* edited and disposed of.  The history kept in call: the name acted on,   *)
(* the native fields a delete found behind it, the names whose object a    *)
(* successful delete has emptied, the names whose object new_partition     *)
(* made and no add has yet succeeded on, and whether a partition already   *)
(* freed has been deleted again.                                           *)
(***************************************************************************)
HandleTypes == {NORMAL}

HandleRanges == {<<1, 2>>, <<3, 2>>}

InitHandle ==
    /\ sectors = [i \in Sectors |-> i + 1]
    /\ open_count = 0
    /\ read_only = FALSE
    /\ external_mode = FALSE
    /\ dev_label = NULL
    /\ disk = Device_new_table("msdos")
    /\ floating = NULL
    /\ handles = [h \in HandleNames |-> NULL]
    /\ heap = <<>>
    /\ result = Res("new_table", "none")
    /\ call = [h |-> 0, before |-> NULL, deleted |-> {}, fresh |-> {},
               undefined |-> FALSE]

UnchangedByHandles ==
    UNCHANGED <<sectors, open_count, read_only, external_mode, dev_label,
                floating>>

\* What a call on the object named h leaves: the table, the object, the
\* heap and the outcome.
HandleReturns(h, op, r) ==
    /\ disk' = r.disk
    /\ handles' = [handles EXCEPT ![h] = r.obj]
    /\ heap' = r.heap
    /\ result' = Res(op, r.exc)

HandleNew(h, part_type, start, end) ==
    /\ handles[h] = NULL
    /\ Len(heap) < MaxNatives
    /\ LET r == Disk_new_partition_obj(disk, heap, [addr |-> Len(heap) + 1],
                                       part_type, start, end)
       IN /\ handles' = [handles EXCEPT ![h] = r.obj]
          /\ heap' = r.heap
          /\ result' = Res("new_partition", r.exc)
    /\ call' = [call EXCEPT !.h = h, !.before = NULL,
                            !.deleted = @ \ {h}, !.fresh = @ \cup {h}]
    /\ UNCHANGED disk
    /\ UnchangedByHandles

HandleGet(h, num) ==
    /\ handles[h] = NULL
    /\ handles' = [handles EXCEPT
                      ![h] = Disk_get_partition_obj(disk, heap, num).obj]
    /\ result' = Res("get_partition", "none")
    /\ call' = [call EXCEPT !.h = h, !.before = NULL,
                            !.deleted = @ \ {h}, !.fresh = @ \ {h}]
    /\ UNCHANGED <<disk, heap>>
    /\ UnchangedByHandles

\* The object named h is added: one that holds no pointer, or one whose
\* native partition is detached.
IsInTable(hp, ptr) == ptr # NULL /\ Native(hp, ptr).where = "table"

HandleAdd(h, constr, by_partition) ==
    /\ handles[h] # NULL
    /\ ~IsFreed(heap, handles[h]._partition)
    /\ ~IsInTable(heap, handles[h]._partition)
    /\ LET r == IF by_partition
                THEN Partition_add_to_disk(disk, heap, handles[h], constr)
                ELSE Disk_add_partition_obj(disk, heap, handles[h], constr)
       IN /\ HandleReturns(h, "add_partition", r)
          /\ call' = [call EXCEPT
                         !.h = h, !.before = NULL,
                         !.fresh = IF r.exc = "none" THEN @ \ {h} ELSE @]
    /\ UnchangedByHandles

\* Deleting through a pointer to a freed partition is undefined: the freed
\* memory may read as an invalid partition, the library may refuse, or it
\* may destroy the partition again.
HandleDeleteFreed(h) ==
    /\ handles[h] # NULL
    /\ IsFreed(heap, handles[h]._partition)
    /\ \E r \in {[exc |-> "InvalidPartitionError", disk |-> disk],
                 [exc |-> "PartedException", disk |-> disk],
                 [exc |-> "none", disk |-> disk]} :
           HandleReturns(h, "delete_partition",
                         Deleted_from_disk(disk, heap, handles[h], r))
    /\ call' = [call EXCEPT !.h = h,
                            !.before = Partition_obj(heap, handles[h]),
                            !.undefined = TRUE]
    /\ UnchangedByHandles

HandleDelete(h, by_partition) ==
    /\ handles[h] # NULL
    /\ ~IsFreed(heap, handles[h]._partition)
    /\ LET r == IF by_partition
                THEN Partition_delete(disk, heap, handles[h])
                ELSE Disk_delete_partition_obj(disk, heap, handles[h])
       IN /\ HandleReturns(h, "delete_partition", r)
          /\ call' = [call EXCEPT
                         !.h = h,
                         !.before = Partition_obj(heap, handles[h]),
                         !.deleted = IF r.exc = "none" THEN @ \cup {h}
                                     ELSE @]
    /\ UnchangedByHandles

\* The object goes out of use: Partition.__del__ runs.
HandleDispose(h) ==
    /\ handles[h] # NULL
    /\ heap' = Partition_del(heap, handles[h])
    /\ handles' = [handles EXCEPT ![h] = NULL]
    /\ result' = Res("__del__", "none")
    /\ call' = [call EXCEPT !.h = h, !.before = NULL,
                            !.deleted = @ \ {h}, !.fresh = @ \ {h}]
    /\ UNCHANGED disk
    /\ UnchangedByHandles

\* The library edits a partition of the table in place: the native
\* partition behind the pointer holds the fields the table now has.
EditedInPlace(hp, p, d, r) ==
    IF p._partition = NULL \/ r.disk.parts \subseteq d.parts THEN hp
    ELSE [hp EXCEPT ![p._partition.addr].part =
                        CHOOSE x \in r.disk.parts : x \notin d.parts]

HandleEdited(h, op, r) ==
    /\ disk' = r.disk
    /\ heap' = EditedInPlace(heap, handles[h], disk, r)
    /\ result' = Res(op, r.exc)
    /\ call' = [call EXCEPT !.h = h, !.before = NULL]
    /\ UNCHANGED handles
    /\ UnchangedByHandles

\* Disk.delete_all_partitions: the library frees every native partition of
\* the table; no object is told.
DestroyedInTable(hp) ==
    [a \in DOMAIN hp |->
        IF hp[a].where = "table"
        THEN [hp[a] EXCEPT !.where = "freed", !.destroyed = @ + 1]
        ELSE hp[a]]

Disk_delete_all_partitions_obj(d, hp) ==
    [exc |-> Disk_delete_all_partitions(d).exc,
     disk |-> Disk_delete_all_partitions(d).disk,
     heap |-> IF Disk_delete_all_partitions(d).exc = "none"
              THEN DestroyedInTable(hp) ELSE hp]

HandleDeleteAll ==
    /\ disk' = Disk_delete_all_partitions_obj(disk, heap).disk
    /\ heap' = Disk_delete_all_partitions_obj(disk, heap).heap
    /\ result' = Res("delete_all_partitions",
                     Disk_delete_all_partitions_obj(disk, heap).exc)
    /\ call' = [call EXCEPT !.h = 0, !.before = NULL]
    /\ UNCHANGED handles
    /\ UnchangedByHandles

HandleSetGeometry(h, const, sector_start, sector_end) ==
    /\ handles[h] # NULL
    /\ ~IsFreed(heap, handles[h]._partition)
    /\ HandleEdited(h, "set_geometry",
                    Partition_set_geometry(disk, heap, handles[h], const,
                                           sector_start, sector_end))

HandleMaximize(h, constr) ==
    /\ handles[h] # NULL
    /\ ~IsFreed(heap, handles[h]._partition)
    /\ HandleEdited(h, "maximize",
                    Partition_maximize(disk, heap, handles[h], constr))

HandleSetFlag(h, state) ==
    /\ handles[h] # NULL
    /\ ~IsFreed(heap, handles[h]._partition)
    /\ HandleEdited(h, "set_flag",
                    Partition_set_flag_obj(disk, heap, handles[h], state))

HandleSetName(h, name) ==
    /\ handles[h] # NULL
    /\ ~IsFreed(heap, handles[h]._partition)
    /\ HandleEdited(h, "name",
                    Partition_set_name_obj(disk, heap, handles[h], name))

NextHandle ==
    \/ \E h \in HandleNames, t \in HandleTypes, se \in HandleRanges :
           HandleNew(h, t, se[1], se[2])
    \/ \E h \in HandleNames, num \in 1 .. 2 : HandleGet(h, num)
    \/ \E h \in HandleNames, constr \in {NULL, Constraint_any},
          by_partition \in BOOLEAN : HandleAdd(h, constr, by_partition)
    \/ \E h \in HandleNames, by_partition \in BOOLEAN :
           HandleDelete(h, by_partition)
    \/ \E h \in HandleNames : HandleDeleteFreed(h)
    \/ \E h \in HandleNames : HandleDispose(h)
    \/ \E h \in HandleNames : HandleSetGeometry(h, Constraint_any, 2, 3)
    \/ \E h \in HandleNames : HandleMaximize(h, WholeConstraint)
    \/ \E h \in HandleNames : HandleSetFlag(h, TRUE)
    \/ \E h \in HandleNames : HandleSetName(h, "a")
    \/ HandleDeleteAll

SpecHandle == InitHandle /\ [][NextHandle]_vars

\* The calls that change a partition or the table through an object.
MutatingOps ==
    {"add_partition", "delete_partition", "set_geometry", "maximize",
     "set_flag", "name"}

Yields(list, part) == \E i \in 1 .. Len(list) : list[i] = part

\* A delete that succeeds on a partition of the table empties the object
\* and takes the partition out of the 'active' list; one that raises
\* leaves the object and the table as they were.
DeleteEmptiesHandle ==
    /\ (result'.op = "delete_partition" /\ result'.exc = "none") =>
           /\ ~Partition_bool(handles'[call'.h])
           /\ ~Partition_is_valid_obj(heap', handles'[call'.h])
           /\ ~IsFreed(heap, handles[call'.h]._partition) =>
                  ~Yields(Disk_active_partitions(disk'), call'.before)
    /\ (result'.op = "delete_partition" /\ result'.exc # "none") =>
           /\ handles' = handles
           /\ disk' = disk

\* C11: after a delete has succeeded the object is falsy and invalid and
\* its partition is gone from the 'active' list, a failed delete changes
\* nothing, and every later mutating call on the object raises.
C11_DeletedHandleAlwaysRaises ==
    [][/\ DeleteEmptiesHandle
       /\ (call'.h \in call.deleted /\ result'.op \in MutatingOps) =>
              result'.exc # "none"]_vars

\* What does hold of an emptied object: after a delete has succeeded the
\* object is falsy and invalid and its partition is gone from the 'active'
\* list; a failed delete changes neither the object nor the table; later,
\* add_to_disk, delete,
\* set_geometry, maximize and set_flag on the object raise
\* InvalidObjectError, Disk.add_partition and Disk.delete_partition given
\* the object raise InvalidPartitionError, none of them changing the table;
\* and setting the name of the object returns without raising and without
\* changing anything.
DeletedHandleIsInvalid ==
    [][/\ DeleteEmptiesHandle
       /\ (call'.h \in call.deleted /\ result'.op \in MutatingOps) =>
              /\ disk' = disk
              /\ handles' = handles
              /\ heap' = heap
              /\ IF result'.op = "name" THEN result'.exc = "none"
                 ELSE result'.exc \in {"InvalidObjectError",
                                       "InvalidPartitionError"}]_vars

\* An object was emptied by a delete, and set_flag on it then raised.
DeletedHandleRaised ==
    /\ call.h \in call.deleted
    /\ result = Res("set_flag", "InvalidObjectError")
    /\ ~Partition_bool(handles[call.h])
    /\ disk.parts = {}

\* The objects that will destroy the native partition at address a when
\* they are disposed of.
Owners(a) ==
    {h \in HandleNames : /\ handles[h] # NULL
                         /\ handles[h]._destroyable
                         /\ handles[h]._partition = [addr |-> a]}

\* An object is owning exactly when new_partition made it and no add has
\* succeeded on it since.
OwningIffFresh ==
    \A h \in HandleNames :
        handles[h] # NULL => (handles[h]._destroyable <=> h \in call.fresh)

\* Every native partition has one destroyer: a detached one its one owning
\* object, one of the table the table, and a freed one was destroyed once
\* and has no owning object left.
OwnedOnce ==
    \A a \in DOMAIN heap :
        /\ heap[a].where = "detached" =>
               heap[a].destroyed = 0 /\ Cardinality(Owners(a)) = 1
        /\ heap[a].where = "table" =>
               /\ heap[a].destroyed = 0
               /\ Owners(a) = {}
               /\ heap[a].part \in disk.parts
        /\ heap[a].where = "freed" =>
               heap[a].destroyed = 1 /\ Owners(a) = {}

\* C12: across any sequence of calls every native partition is destroyed
\* exactly once, and an object is owning iff new_partition made it and no
\* add has succeeded on it.
C12_DestroyedExactlyOnce == OwningIffFresh /\ OwnedOnce

\* What does hold of ownership: an object is owning iff new_partition made
\* it and no add has succeeded on it: not after a successful add or delete, still after a
\* failed add, and never when get_partition made it; and as long as no
\* delete is made through an object whose native partition was already
\* freed through another object, every native partition is destroyed
\* exactly once.
OwnershipAndSingleDestroy ==
    /\ OwningIffFresh
    /\ ~call.undefined => OwnedOnce

\* An owning object was disposed of and its native partition destroyed,
\* while another native partition belongs to the table.
OwnerDisposedOnce ==
    /\ result = Res("__del__", "none")
    /\ ~call.undefined
    /\ \E a \in DOMAIN heap : heap[a].where = "freed" /\ heap[a].destroyed = 1
    /\ \E a \in DOMAIN heap : heap[a].where = "table"
    /\ \E h \in HandleNames : handles[h] # NULL /\ ~handles[h]._destroyable

(***************************************************************************)
(* SpecResize: Disk.set_partition_geometry on a table, given a Partition   *)
(* object that holds no pointer, a partition of this table or a partition  *)
(* of another table of the same device.  A Partition object here is        *)
(* [part, disk, own]: the native fields, the table Partition.disk wraps,   *)
(* and whether that table is this very table.                              *)
(***************************************************************************)
\* ped_disk_get_last_partition_num
ped_disk_get_last_partition_num(d) ==
    IF d.parts = {} THEN -1 ELSE Max({p.num : p \in d.parts})

\* Disk.__str__: path of the device, label type, last partition number and
\* flags; the tables of one device share the path.
Disk_str(d) ==
    IF d = NULL THEN <<"", "", 0, {}>>
    ELSE <<"dev", d.type, ped_disk_get_last_partition_num(d), Disk_flags(d)>>

\* Disk.__eq__
Disk_eq(d, other) == Disk_str(d) = Disk_str(other)

\* The range check of Disk.set_partition_geometry.
Invalid_sector_range(sector_start, sector_end) ==
    \/ sector_start < 0
    \/ sector_end < 0
    \/ sector_end > DevLen
    \/ sector_start > DevLen
    \/ sector_start > sector_end

\* The native call of Disk.set_partition_geometry.  Given a partition of
\* another table the library's behaviour is undefined: it returns 0, or its
\* assertion ends the process.
set_partition_geom_call(d, partition, const, sector_start, sector_end, aborts) ==
    IF partition.own
    THEN Raising(ped_disk_set_partition_geom(d, partition.part, const,
                                             sector_start, sector_end))
    ELSE [exc |-> IF aborts THEN "abort" ELSE "PartedException", disk |-> d]

\* Disk.set_partition_geometry of an object: [exc, disk, native], native
\* telling whether the library was called.
Disk_set_partition_geometry_obj(d, partition, const, sector_start, sector_end, aborts) ==
    IF d = NULL
    THEN [exc |-> "InvalidObjectError", disk |-> d, native |-> FALSE]
    ELSE IF partition.part = NULL
    THEN [exc |-> "PartedException", disk |-> d, native |-> FALSE]
    ELSE IF ~Disk_eq(partition.disk, d)
    THEN [exc |-> "PartedException", disk |-> d, native |-> FALSE]
    ELSE IF const = NULL
    THEN [exc |-> "PartedException", disk |-> d, native |-> FALSE]
    ELSE IF Invalid_sector_range(sector_start, sector_end)
    THEN [exc |-> "PartedException", disk |-> d, native |-> FALSE]
    ELSE [exc |-> set_partition_geom_call(d, partition, const, sector_start,
                                          sector_end, aborts).exc,
          disk |-> set_partition_geom_call(d, partition, const, sector_start,
                                           sector_end, aborts).disk,
          native |-> TRUE]

\* A table of one partition at [start, end].
TableWith(label_type, start, end) ==
    ped_disk_add_partition(
        ped_disk_new_fresh(label_type),
        ped_partition_new(ped_disk_new_fresh(label_type), NORMAL, start, end),
        Constraint_any).disk

ThisTable == TableWith("msdos", 1, 2)

\* A table like ThisTable but for the place of its partition; the same
\* with CYLINDER_ALIGNMENT unset; tables that differ in what str() shows.
OtherTables ==
    {ped_disk_new_fresh("msdos"), TableWith("msdos", 3, 4),
     Disk_set_flag(TableWith("msdos", 3, 4), CYLINDER_ALIGNMENT, FALSE).disk,
     TableWith("gpt", 3, 4)}

ResizeObjects ==
    {[part |-> NULL, disk |-> NULL, own |-> FALSE]}
    \cup {[part |-> p, disk |-> ThisTable, own |-> TRUE] :
             p \in ThisTable.parts}
    \cup UNION {{[part |-> p, disk |-> t, own |-> FALSE] : p \in t.parts} :
                   t \in OtherTables}

ResizeSectors == -1 .. (DevLen + 1)

InitResize ==
    /\ sectors = [i \in Sectors |-> i + 1]
    /\ open_count = 0
    /\ read_only = FALSE
    /\ external_mode = FALSE
    /\ dev_label = NULL
    /\ disk = ThisTable
    /\ floating = NULL
    /\ handles = <<>>
    /\ heap = <<>>
    /\ result = Res("new_table", "none")
    /\ \E partition \in ResizeObjects, const \in {NULL, Constraint_any},
          start \in ResizeSectors, end \in ResizeSectors :
           call = [op |-> "new", partition |-> partition, const |-> const,
                   start |-> start, end |-> end, native |-> FALSE,
                   before |-> ThisTable]

Resize(aborts) ==
    /\ call.op = "new"
    /\ LET r == Disk_set_partition_geometry_obj(disk, call.partition,
                                                call.const, call.start,
                                                call.end, aborts)
       IN /\ disk' = r.disk
          /\ result' = Res("set_partition_geometry", r.exc)
          /\ call' = [call EXCEPT !.op = "set_partition_geometry",
                                  !.native = r.native]
    /\ UNCHANGED <<sectors, open_count, read_only, external_mode, dev_label,
                   floating, handles, heap>>

NextResize == \E aborts \in BOOLEAN : Resize(aborts)

SpecResize == InitResize /\ [][NextResize]_vars

\* C13: Disk.set_partition_geometry raises PartedException, changes no
\* geometry and does not reach the library whenever start < 0, end < 0,
\* start > end, start or end > device.length, the object holds no pointer
\* or is of another table, or the constraint is invalid.
C13_ChecksBeforeBackend ==
    (/\ call.op = "set_partition_geometry"
     /\ \/ Invalid_sector_range(call.start, call.end)
        \/ call.partition.part = NULL
        \/ ~call.partition.own
        \/ call.const = NULL)
        => /\ result.exc = "PartedException"
           /\ disk = call.before
           /\ ~call.native

\* What does hold: the same, for an object of another table only when that
\* table differs from this one in label type or last partition number.
ChecksBeforeBackendByContent ==
    (/\ call.op = "set_partition_geometry"
     /\ \/ Invalid_sector_range(call.start, call.end)
        \/ call.partition.part = NULL
        \/ ~Disk_eq(call.partition.disk, call.before)
        \/ call.const = NULL)
        => /\ result.exc = "PartedException"
           /\ disk = call.before
           /\ ~call.native

(***************************************************************************)
(* Access to the device: the remaining native calls and their wrappers.    *)
(* Buffers are sequences of whole sectors.  A wrapper gives back           *)
(* [exc, val, mem, native] as Device.read does; clobber gives back the     *)
(* label in place of the contents.                                         *)
(***************************************************************************)
\* ped_device_sync and ped_device_sync_fast: 1, or 0 when the flush fails.
ped_device_sync(ok) == IF ok THEN 1 ELSE 0

ped_device_sync_fast(ok) == IF ok THEN 1 ELSE 0

\* ped_disk_clobber: the label is erased, or 0 and nothing is.
ped_disk_clobber(label, ok) ==
    IF ok THEN [ret |-> 1, label |-> NULL] ELSE [ret |-> 0, label |-> label]

\* ped_geometry_read and ped_geometry_write: the offset is counted from
\* the start of the region, and the transfer must end inside it.
ped_geometry_read(mem, g, offset, count) ==
    IF g.start + offset + count - 1 > GeomEnd(g)
    THEN [ret |-> 0, buf |-> <<>>]
    ELSE ped_device_read(mem, g.start + offset, count)

ped_geometry_write(mem, g, buf, offset, count) ==
    IF g.start + offset + count - 1 > GeomEnd(g)
    THEN [ret |-> 0, mem |-> mem]
    ELSE ped_device_write(mem, buf, g.start + offset, count)

ped_geometry_sync(ok) == IF ok THEN 1 ELSE 0

ped_geometry_sync_fast(ok) == IF ok THEN 1 ELSE 0

\* ped_geometry_check: the first bad sector; the device has none.
ped_geometry_check(g, offset, granularity, count) == 0

\* A call that got to the native library and gave back val or raised e.
Reached(e, val, mem) == [exc |-> e, val |-> val, mem |-> mem, native |-> TRUE]

\* A call stopped after wants_access and before the native library.
Rejected(e, mem) == [exc |-> e, val |-> NULL, mem |-> mem, native |-> FALSE]

\* Device.sync
Device_sync(mem, ok) ==
    IF Device_wants_access(TRUE) # "none"
    THEN Refused(Device_wants_access(TRUE), mem)
    ELSE IF ped_device_sync(ok) = 0 THEN Reached("IOError", NULL, mem)
    ELSE Reached("none", NULL, mem)

\* Device.sync_fast
Device_sync_fast(mem, ok) ==
    IF Device_wants_access(TRUE) # "none"
    THEN Refused(Device_wants_access(TRUE), mem)
    ELSE IF ped_device_sync_fast(ok) = 0 THEN Reached("IOError", NULL, mem)
    ELSE Reached("none", NULL, mem)

\* Device.clobber without the check of access.
Device_clobber_unchecked(label, ok) ==
    LET r == ped_disk_clobber(label, ok) IN
    [exc |-> IF r.ret = 0 THEN "PartedException" ELSE "none",
     label |-> r.label, native |-> TRUE]

\* Device.clobber: [exc, label, native].
Device_clobber(label, ok) ==
    IF Device_wants_access(TRUE) # "none"
    THEN [exc |-> Device_wants_access(TRUE), label |-> label,
          native |-> FALSE]
    ELSE LET r == ped_disk_clobber(label, ok) IN
         [exc |-> IF r.ret = 0 THEN "PartedException" ELSE "none",
          label |-> r.label, native |-> TRUE]

\* Geometry.read
Geometry_read(mem, g, sector_offset, sector_count) ==
    IF g = NULL THEN Rejected("InvalidObjectError", mem)
    ELSE IF Device_wants_access(FALSE) # "none"
    THEN Refused(Device_wants_access(FALSE), mem)
    ELSE IF sector_offset < 0 THEN Rejected("PartedException", mem)
    ELSE IF sector_count < 0 THEN Rejected("PartedException", mem)
    ELSE LET rd == ped_geometry_read(mem, g, sector_offset, sector_count) IN
         IF rd.ret = 0 THEN Reached("PartedException", NULL, mem)
         ELSE Reached("none", rd.buf, mem)

\* A sector holds SectorBytes bytes, each below ByteBase; its content is the
\* number they spell, so that content 0 is a sector of zero bytes.
SectorBytes == 2

ByteBase == DevLen + 2

BytesOf(content) == <<content \div ByteBase, content % ByteBase>>

SectorOf(bytes) == bytes[1] * ByteBase + bytes[2]

\* The bytes of a buffer of sectors, and the sectors of a buffer of bytes.
Flatten(buf) ==
    [k \in 1 .. SectorBytes * Len(buf) |->
        BytesOf(buf[(k + SectorBytes - 1) \div SectorBytes])[((k - 1) % SectorBytes) + 1]]

Pack(bytes) ==
    [i \in 1 .. Len(bytes) \div SectorBytes |->
        SectorOf(SubSeq(bytes, SectorBytes * (i - 1) + 1, SectorBytes * i))]

\* Geometry.write of the bytes of data.  Data that ends inside a sector is
\* completed with the rest of that sector, read through Geometry.read,
\* whose exception is the caller's; the value the native write returns is
\* not looked at.
Geometry_write(mem, g, data, sector_offset) ==
    IF g = NULL THEN Rejected("InvalidObjectError", mem)
    ELSE IF Device_wants_access(TRUE) # "none"
    THEN Refused(Device_wants_access(TRUE), mem)
    ELSE IF sector_offset < 0 THEN Rejected("PartedException", mem)
    ELSE LET sector_count == (Len(data) + SectorBytes - 1) \div SectorBytes
             short == Len(data) < sector_count * SectorBytes
             buffer == Geometry_read(mem, g, sector_offset + sector_count - 1, 1)
         IN IF short /\ buffer.exc # "none"
            THEN [buffer EXCEPT !.val = NULL]
            ELSE LET buf == IF short
                            THEN data \o SubSeq(Flatten(buffer.val),
                                                (Len(data) % SectorBytes) + 1,
                                                SectorBytes)
                            ELSE data
                 IN Reached("none", NULL,
                            ped_geometry_write(mem, g, Pack(buf), sector_offset,
                                               sector_count).mem)

\* Geometry.sync
Geometry_sync(mem, g, ok) ==
    IF g = NULL THEN Rejected("InvalidObjectError", mem)
    ELSE IF Device_wants_access(TRUE) # "none"
    THEN Refused(Device_wants_access(TRUE), mem)
    ELSE IF ped_geometry_sync(ok) = 0
    THEN Reached("PartedException", NULL, mem)
    ELSE Reached("none", NULL, mem)

\* Geometry.sync_fast
Geometry_sync_fast(mem, g, ok) ==
    IF g = NULL THEN Rejected("InvalidObjectError", mem)
    ELSE IF Device_wants_access(TRUE) # "none"
    THEN Refused(Device_wants_access(TRUE), mem)
    ELSE IF ped_geometry_sync_fast(ok) = 0 THEN Reached("IOError", NULL, mem)
    ELSE Reached("none", NULL, mem)

\* Geometry.check
Geometry_check(mem, g, sector_offset, granularity, count) ==
    IF g = NULL THEN Rejected("InvalidObjectError", mem)
    ELSE IF Device_wants_access(FALSE) # "none"
    THEN Refused(Device_wants_access(FALSE), mem)
    ELSE Reached("none",
                 ped_geometry_check(g, sector_offset, granularity, count),
                 mem)

(***************************************************************************)
(* SpecAccess: the device is opened and closed, handed over to external    *)
(* access and taken back, and every operation that touches it is called    *)
(* in every such state, on a device that holds a label and a table to      *)
(* commit.                                                                 *)
(***************************************************************************)
\* The start sectors and sector counts the calls are made with.
AccessStarts == {-DevLen - 1, -2, DevLen - 1, DevLen}

AccessCounts == {1, 2}

\* Device.read is also asked for a negative number of sectors.
ReadCounts == AccessCounts \cup {-1}

\* The bytes Geometry.write is given: two sectors, a sector and a half.
WriteBytes == {2 * SectorBytes, SectorBytes + 1}

\* The regions Geometry calls are made on: none, and sectors 1 to 3.
AccessGeoms == {NULL, Geometry(1, 3)}

InitAccess ==
    /\ sectors = [i \in Sectors |-> i + 1]
    /\ open_count = 0
    /\ read_only = FALSE
    /\ external_mode = FALSE
    /\ dev_label = EncodeLabel(TableWith("msdos", 1, 2))
    /\ disk = Device_new_table("gpt")
    /\ floating = NULL
    /\ handles = <<>>
    /\ heap = <<>>
    /\ result = Res("init", "none")
    /\ call = [op |-> "init", valid |-> TRUE, native |-> FALSE, start |-> 0,
               count |-> 0, val |-> NULL]

\* ped_device_begin_external_access and ped_device_end_external_access, as
\* the library brackets a hand-over of the device.
ped_device_begin_external_access == TRUE

ped_device_end_external_access == FALSE

BeginExternal ==
    /\ ~external_mode
    /\ external_mode' = ped_device_begin_external_access
    /\ result' = Res("begin_external_access", "none")
    /\ call' = [op |-> "begin_external_access", valid |-> TRUE,
                native |-> TRUE,
                start |-> 0, count |-> 0, val |-> NULL]
    /\ UNCHANGED <<sectors, open_count, read_only, dev_label, disk, floating,
                   handles, heap>>

\* Device.end_external_access
EndExternal ==
    /\ external_mode
    /\ external_mode' = ped_device_end_external_access
    /\ result' = Res("end_external_access", "none")
    /\ call' = [op |-> "end_external_access", valid |-> TRUE,
                native |-> TRUE,
                start |-> 0, count |-> 0, val |-> NULL]
    /\ UNCHANGED <<sectors, open_count, read_only, dev_label, disk, floating,
                   handles, heap>>

\* A call on the contents, made on a valid or a null object, returns r.
Touches(op, valid, r, start, count) ==
    /\ sectors' = r.mem
    /\ result' = Res(op, r.exc)
    /\ call' = [op |-> op, valid |-> valid, native |-> r.native,
                start |-> start,
                count |-> count, val |-> r.val]
    /\ UNCHANGED <<open_count, read_only, external_mode, dev_label, disk,
                   floating, handles, heap>>

AccRead(start, count) ==
    Touches("Device.read", TRUE, Device_read(sectors, start, count), start, count)

\* Device.write on a block device, or on a device that is a regular file.
AccWrite(start, count, file) ==
    LET buffer == [i \in 1 .. count |-> Mark]
        r == IF file THEN Device_write_file(sectors, buffer, start, count)
             ELSE Device_write(sectors, buffer, start, count)
    IN /\ sectors' = r.mem
       /\ result' = Res("Device.write", r.exc)
       /\ call' = [op |-> "Device.write", valid |-> TRUE,
                   native |-> r.native, start |-> start, count |-> count,
                   val |-> r.val, file |-> file]
       /\ UNCHANGED <<open_count, read_only, external_mode, dev_label, disk,
                      floating, handles, heap>>

AccSync(ok) == Touches("Device.sync", TRUE, Device_sync(sectors, ok), 0, 0)

AccSyncFast(ok) ==
    Touches("Device.sync_fast", TRUE, Device_sync_fast(sectors, ok), 0, 0)

AccCopy(source, to) ==
    /\ source.start # to
    /\ Touches("Device.copy", TRUE, Device_copy(sectors, source, to, 1),
               source.start, source.length)

AccClobber(ok) ==
    LET r == Device_clobber(dev_label, ok) IN
    /\ dev_label' = r.label
    /\ result' = Res("Device.clobber", r.exc)
    /\ call' = [op |-> "Device.clobber", valid |-> TRUE, native |-> r.native, start |-> 0,
                count |-> 0, val |-> NULL]
    /\ UNCHANGED <<sectors, open_count, read_only, external_mode, disk,
                   floating, handles, heap>>

AccGeomRead(g, offset, count) ==
    Touches("Geometry.read", g # NULL, Geometry_read(sectors, g, offset, count),
            offset, count)

\* Geometry.write of the first count bytes of sectors of content Mark.
AccGeomWrite(g, offset, count) ==
    Touches("Geometry.write", g # NULL,
            Geometry_write(sectors, g,
                           SubSeq(Flatten([i \in 1 .. count |-> Mark]), 1, count),
                           offset),
            offset, count)

AccGeomSync(g, ok) ==
    Touches("Geometry.sync", g # NULL, Geometry_sync(sectors, g, ok), 0, 0)

AccGeomSyncFast(g, ok) ==
    Touches("Geometry.sync_fast", g # NULL, Geometry_sync_fast(sectors, g, ok), 0, 0)

AccGeomCheck(g, offset, count) ==
    Touches("Geometry.check", g # NULL, Geometry_check(sectors, g, offset, 1, count),
            offset, count)

AccCommit(d, written) ==
    LET r == Disk_commit_to_dev(d, dev_label, written) IN
    /\ dev_label' = r.label
    /\ result' = Res("Disk.commit_to_dev", r.exc)
    /\ call' = [op |-> "Disk.commit_to_dev", valid |-> d # NULL,
                native |-> r.native,
                start |-> 0, count |-> 0, val |-> NULL]
    /\ UNCHANGED <<sectors, open_count, read_only, external_mode, disk,
                   floating, handles, heap>>

NextAccess ==
    \/ \E mode \in {"r", "rw"} : DevOpen(mode)
    \/ DevClose
    \/ BeginExternal
    \/ EndExternal
    \/ \E start \in AccessStarts, count \in ReadCounts :
           AccRead(start, count)
    \/ \E start \in AccessStarts, count \in AccessCounts, file \in BOOLEAN :
           AccWrite(start, count, file)
    \/ \E ok \in BOOLEAN : AccSync(ok)
    \/ \E ok \in BOOLEAN : AccSyncFast(ok)
    \/ \E ok \in BOOLEAN : AccClobber(ok)
    \/ AccCopy(Geometry(0, 2), 3)
    \/ \E g \in AccessGeoms, offset \in {-1, 0, 2}, count \in AccessCounts :
           AccGeomRead(g, offset, count)
    \/ \E g \in AccessGeoms, offset \in {-1, 0, 2}, count \in WriteBytes :
           AccGeomWrite(g, offset, count)
    \/ \E g \in AccessGeoms, ok \in BOOLEAN : AccGeomSync(g, ok)
    \/ \E g \in AccessGeoms, ok \in BOOLEAN : AccGeomSyncFast(g, ok)
    \/ \E g \in AccessGeoms : AccGeomCheck(g, 0, 1)
    \/ \E d \in {NULL, disk}, written \in {0, MaxWrites} :
           AccCommit(d, written)

SpecAccess == InitAccess /\ [][NextAccess]_vars

\* The operations that touch the device, and those of them that write.
TouchingOps ==
    {"Device.read", "Device.write", "Device.sync", "Device.sync_fast",
     "Device.clobber", "Device.copy", "Geometry.read", "Geometry.write",
     "Geometry.sync", "Geometry.sync_fast", "Geometry.check",
     "Disk.commit_to_dev"}

ReadingOps == {"Device.read", "Geometry.read", "Geometry.check"}

\* The precondition an operation misses in the current state, in the order
\* opened, not external, writable; "none" when it misses none.
MissedPrecondition(op) ==
    IF open_count = 0 THEN "NotOpenedError"
    ELSE IF external_mode THEN "InvalidDeviceError"
    ELSE IF op \notin ReadingOps /\ read_only THEN "ReadOnlyError"
    ELSE "none"

\* C14: an operation that touches the device, called on a valid object,
\* reaches the native library only when the device is opened, is not in
\* external-access mode and, for an operation that writes, is not
\* read-only; otherwise it raises NotOpenedError, InvalidDeviceError or
\* ReadOnlyError, the first that applies in that order, and the sectors
\* and the label of the device stay as they were.
C14_NoAccessWithoutPrecondition ==
    [][(result'.op \in TouchingOps /\ call'.valid) =>
          /\ call'.native => MissedPrecondition(result'.op) = "none"
          /\ MissedPrecondition(result'.op) # "none" =>
                /\ result'.exc = MissedPrecondition(result'.op)
                /\ ~call'.native
                /\ sectors' = sectors
                /\ dev_label' = dev_label]_vars

\* A clobber of the label on a device opened read-only was refused, and a
\* sync on a device in external-access mode.
C14_Witness ==
    /\ result.op \in {"Device.clobber", "Geometry.sync"}
    /\ call.valid
    /\ open_count > 0
    /\ \/ read_only /\ ~external_mode /\ result.exc = "ReadOnlyError"
       \/ external_mode /\ result.exc = "InvalidDeviceError"
    /\ ~call.native
    /\ dev_label # NULL

(***************************************************************************)
(* SpecOpen: Device.open and Device.close are called in any order; call    *)
(* counts the opens that succeeded, the closes made on an opened device    *)
(* and the closes made on a closed one.  The native open may fail, and     *)
(* then raises IOError.                                                    *)
(***************************************************************************)
MaxCalls == 6       \* cap on the opens and on the idle closes counted

InitOpen ==
    /\ Idle
    /\ call = [opens |-> 0, closes |-> 0, idle |-> 0]

\* Device.open(mode); ok is whether the native open succeeds.
CountedOpen(mode, ok) ==
    /\ open_count < MaxOpen
    /\ call.opens < MaxCalls
    /\ IF ok
       THEN /\ open_count' = ped_device_open(open_count)
            /\ read_only' = (mode = "r")
            /\ result' = Res("open", "none")
            /\ call' = [call EXCEPT !.opens = @ + 1]
       ELSE /\ result' = Res("open", "IOError")
            /\ UNCHANGED <<open_count, read_only, call>>
    /\ UNCHANGED <<sectors, external_mode, dev_label, disk, floating, handles,
                   heap>>

\* Device.close
CountedClose ==
    /\ open_count > 0 \/ call.idle < MaxCalls
    /\ open_count' = Device_close(open_count)
    /\ result' = Res("close", "none")
    /\ call' = IF open_count > 0 THEN [call EXCEPT !.closes = @ + 1]
               ELSE [call EXCEPT !.idle = @ + 1]
    /\ UNCHANGED <<sectors, read_only, external_mode, dev_label, disk,
                   floating, handles, heap>>

NextOpen ==
    \/ \E mode \in {"r", "rw"}, ok \in BOOLEAN : CountedOpen(mode, ok)
    \/ CountedClose

SpecOpen == InitOpen /\ [][NextOpen]_vars

\* C15: after any sequence of Device.open and Device.close calls the open
\* count is the number of opens that succeeded minus the number of closes
\* made while it was above 0; it is never negative; a close made at 0
\* raises nothing and changes nothing; is_opened holds exactly when the
\* count is above 0.
C15_OpenCountBalance ==
    /\ [](/\ open_count = call.opens - call.closes
          /\ open_count >= 0
          /\ Device_is_opened <=> open_count > 0)
    /\ [][(result'.op = "close" /\ open_count = 0) =>
             /\ result'.exc = "none"
             /\ call'.opens = call.opens
             /\ call'.closes = call.closes
             /\ UNCHANGED <<sectors, open_count, read_only, external_mode,
                            dev_label, disk>>]_vars

\* The device was opened twice and closed three times, the last close at 0.
C15_Witness ==
    /\ call.opens >= 2
    /\ call.closes = call.opens
    /\ call.idle >= 1
    /\ open_count = 0
    /\ result = Res("close", "none")

(***************************************************************************)
(* OpenContext: what "with dev.open(mode):" and "with geometry.open():"    *)
(* run around their body.                                                  *)
(***************************************************************************)
\* OpenContext.__exit__ that closes only when the body raised nothing.
OpenContext_exit_normal_only(count, exc_type) ==
    IF exc_type = "none" THEN Device_close(count) ELSE count

\* OpenContext.__enter__ does nothing.
OpenContext_enter(count) == count

\* OpenContext.__exit__(exc_type, exc_val, exc_tb): the object is closed,
\* whatever the body raised; the open count afterwards.
OpenContext_exit(count, exc_type) == Device_close(count)

\* Geometry.close closes the device of the region.
Geometry_close(count) == Device_close(count)

\* The mode Device.open is called with: Geometry.open passes none, which
\* is 'rw'.
OpenMode(kind, mode) == IF kind = "geometry" THEN "rw" ELSE mode

(***************************************************************************)
(* SpecWith: with-blocks on one device, nested, whose bodies open and      *)
(* close the device themselves and are left normally, by a return or by    *)
(* an exception.  call.stack holds one frame per block being run: the      *)
(* open count before its open, the opens less the closes its body has      *)
(* made (net), and whether the body ever closed more than it had opened    *)
(* (under).  call.left is the block left last.                             *)
(***************************************************************************)
MaxDepth == 2       \* with-blocks nested at most

NoFrame == [kind |-> "none", before |-> 0, net |-> 0, under |-> FALSE]

InitWith ==
    /\ Idle
    /\ call = [stack |-> <<>>, left |-> NoFrame, how |-> "none"]

\* The frame of the innermost block with its body's count changed by d.
BodyCounts(stack, d) ==
    IF stack = <<>> THEN stack
    ELSE [stack EXCEPT ![Len(stack)] =
             [@ EXCEPT !.net = @ + d,
                       !.under = @ \/ (stack[Len(stack)].net + d < 0)]]

\* The frames left when the innermost block ends; a block whose body was
\* not balanced leaves the body of the enclosing block unbalanced too.
Enclosing(stack, unbalanced) ==
    LET rest == SubSeq(stack, 1, Len(stack) - 1) IN
    IF rest = <<>> THEN rest
    ELSE [rest EXCEPT ![Len(rest)] = [@ EXCEPT !.under = @ \/ unbalanced]]

\* "with dev.open(mode):" or "with geometry.open():" is entered; when the
\* native open fails the open raises and the block is not entered.
WithEnter(kind, mode, ok) ==
    /\ Len(call.stack) < MaxDepth
    /\ open_count < MaxOpen
    /\ IF ok
       THEN /\ open_count' = OpenContext_enter(ped_device_open(open_count))
            /\ read_only' = (OpenMode(kind, mode) = "r")
            /\ result' = Res("with", "none")
            /\ call' = [call EXCEPT !.stack =
                           Append(@, [kind |-> kind, before |-> open_count,
                                      net |-> 0, under |-> FALSE])]
       ELSE /\ result' = Res("with", "IOError")
            /\ UNCHANGED <<open_count, read_only, call>>
    /\ UNCHANGED <<sectors, external_mode, dev_label, disk, floating, handles,
                   heap>>

\* Device.open in the body of the innermost block, or outside any block.
BodyOpen(mode) ==
    /\ open_count < MaxOpen
    /\ IF call.stack = <<>> THEN TRUE
       ELSE call.stack[Len(call.stack)].net < MaxOpen
    /\ open_count' = ped_device_open(open_count)
    /\ read_only' = (mode = "r")
    /\ result' = Res("open", "none")
    /\ call' = [call EXCEPT !.stack = BodyCounts(@, 1)]
    /\ UNCHANGED <<sectors, external_mode, dev_label, disk, floating, handles,
                   heap>>

\* Device.close in the body of the innermost block, or outside any block.
BodyClose ==
    /\ IF call.stack = <<>> THEN TRUE
       ELSE call.stack[Len(call.stack)].net > -MaxOpen
    /\ open_count' = Device_close(open_count)
    /\ result' = Res("close", "none")
    /\ call' = [call EXCEPT !.stack = BodyCounts(@, -1)]
    /\ UNCHANGED <<sectors, read_only, external_mode, dev_label, disk,
                   floating, handles, heap>>

\* The innermost block is left: __exit__ runs, and what the body raised
\* goes on to the enclosing block.
WithLeave(how) ==
    /\ call.stack # <<>>
    /\ LET frame == call.stack[Len(call.stack)] IN
       /\ open_count' =
              IF frame.kind = "geometry"
              THEN Geometry_close(open_count)
              ELSE OpenContext_exit(open_count,
                                    IF how = "exception" THEN "Exception"
                                    ELSE "none")
       /\ result' = Res("leave", IF how = "exception" THEN "Exception"
                                 ELSE "none")
       /\ call' = [stack |-> Enclosing(call.stack,
                                       frame.net # 0 \/ frame.under),
                   left |-> frame, how |-> how]
    /\ UNCHANGED <<sectors, read_only, external_mode, dev_label, disk,
                   floating, handles, heap>>

NextWith ==
    \/ \E kind \in {"device", "geometry"}, mode \in {"r", "rw"},
          ok \in BOOLEAN : WithEnter(kind, mode, ok)
    \/ \E mode \in {"r", "rw"} : BodyOpen(mode)
    \/ BodyClose
    \/ \E how \in {"normal", "return", "exception"} : WithLeave(how)

SpecWith == InitWith /\ [][NextWith]_vars

\* The body of a frame was balanced: every close it made matched an open
\* it had made before, and none of its opens is left unmatched.
Balanced(frame) == frame.net = 0 /\ ~frame.under

\* C16: when a with-block on dev.open(...) or geometry.open() is left, by
\* completion, by a return or by an exception of the body, and the body
\* made balanced opens and closes, the device is closed once for the open
\* of the block: the open count goes down by one and is what it was
\* before the open.
C16_WithClosesOnEveryExit ==
    [][(result'.op = "leave" /\ Balanced(call'.left)) =>
          /\ open_count' = open_count - 1
          /\ open_count' = call'.left.before]_vars

\* A block nested in another was left by an exception of its balanced
\* body, and the device is opened once again, for the enclosing block.
C16_Witness ==
    /\ result = Res("leave", "Exception")
    /\ call.how = "exception"
    /\ Balanced(call.left)
    /\ call.left.before = 1
    /\ open_count = 1
    /\ Len(call.stack) = 1

(***************************************************************************)
(* PedException: the handler of the library's exceptions.  A handler is    *)
(* [raises, value]: whether calling it raises, and the Option it returns   *)
(* otherwise; NULL is no handler.  An exception of the library is          *)
(* [type, options, message], options being the sum of the allowed Options. *)
(***************************************************************************)
\* PedException.Option
UNHANDLED == 0
FIX == 1
YES == 2
NO == 4
OK == 8
RETRY == 16
IGNORE == 32
CANCEL == 64

\* PedException.Type
INFORMATION == 1
WARNING == 2
ERROR == 3
FATAL == 4
BUG == 5
FEATURE == 6

Option == {UNHANDLED, FIX, YES, NO, OK, RETRY, IGNORE, CANCEL}

Type == {INFORMATION, WARNING, ERROR, FATAL, BUG, FEATURE}

\* PedException.options: the Options whose bit is set in the exception.
PedException_options(exc) == {x \in Option \ {UNHANDLED} : HasBit(exc.options, x)}

\* PedException.register_handler and PedException.restore_handler: the
\* handler installed afterwards.
register_handler(handler) == handler

restore_handler == NULL

\* with_handler up to its yield: the handler installed before is kept and
\* the new one registered.
with_handler_enter(installed, handler) ==
    [old_handler |-> installed, installed |-> register_handler(handler)]

\* The end of with_handler that puts nothing back.
with_handler_exit_to_default(old_handler) == restore_handler

\* The finally clause of with_handler: the default is restored, then the
\* handler kept at entry is registered again if there was one.
with_handler_exit(old_handler) ==
    IF old_handler # NULL THEN register_handler(old_handler)
    ELSE restore_handler

\* The level the default handling logs an exception of each type at.
LogLevel(type) ==
    IF type = ERROR THEN "error"
    ELSE IF type = WARNING THEN "warning"
    ELSE IF type = INFORMATION THEN "info"
    ELSE "critical"

\* exception_handler that gives the library whatever the handler returns.
exception_handler_unchecked(handler, exc) ==
    IF handler = NULL
    THEN [ret |-> UNHANDLED, last_message |-> exc.message,
          log |-> LogLevel(exc.type)]
    ELSE IF handler.raises
    THEN [ret |-> UNHANDLED, last_message |-> exc.message,
          log |-> "exception"]
    ELSE [ret |-> handler.value, last_message |-> exc.message,
          log |-> "none"]

\* exception_handler, the callback the library calls with an exception:
\* [ret, last_message, log], the resolution given to the library, the
\* message recorded and what is logged.
exception_handler(handler, exc) ==
    IF handler = NULL
    THEN [ret |-> UNHANDLED, last_message |-> exc.message,
          log |-> LogLevel(exc.type)]
    ELSE IF handler.raises
    THEN [ret |-> UNHANDLED, last_message |-> exc.message,
          log |-> "exception"]
    ELSE IF handler.value \in PedException_options(exc)
            \/ handler.value = UNHANDLED
    THEN [ret |-> handler.value, last_message |-> exc.message,
          log |-> "none"]
    ELSE [ret |-> UNHANDLED, last_message |-> exc.message,
          log |-> "warning"]

(***************************************************************************)
(* SpecHandler: handlers are registered and restored, with_handler blocks  *)
(* are entered, nested and left, and the library raises exceptions.  call  *)
(* holds the class attributes _exception_handler and _last_message, one    *)
(* frame per with_handler block being run (the handler installed when it   *)
(* was entered, and old_handler), the block left last, and the exception   *)
(* raised last with the resolution it got.                                 *)
(***************************************************************************)
\* The handlers registered: one that leaves the exception unhandled, one
\* that answers FIX, and one that raises.
Handlers ==
    {[raises |-> FALSE, value |-> v] : v \in {UNHANDLED, FIX}}
        \cup {[raises |-> TRUE, value |-> UNHANDLED]}

\* The exceptions raised: every type, asking FIX or IGNORE, or YES or NO.
Exceptions ==
    {[type |-> t, options |-> o, message |-> m] :
        t \in Type, o \in {FIX + IGNORE, YES + NO}, m \in {"a"}}

NoBlock == [at_entry |-> NULL, old_handler |-> NULL, how |-> "none"]

NoException == [type |-> INFORMATION, options |-> UNHANDLED, message |-> ""]

InitHandler ==
    /\ Idle
    /\ call = [op |-> "init", handler |-> NULL, last_message |-> "",
               stack |-> <<>>, left |-> NoBlock, exc |-> NoException,
               installed |-> NULL, ret |-> UNHANDLED, log |-> "none"]

HandlerStep(op) ==
    /\ result' = Res(op, "none")
    /\ UNCHANGED <<sectors, open_count, read_only, external_mode, dev_label,
                   disk, floating, handles, heap>>

RegisterHandler(handler) ==
    /\ call' = [call EXCEPT !.op = "register_handler",
                            !.handler = register_handler(handler)]
    /\ HandlerStep("register_handler")

RestoreHandler ==
    /\ call' = [call EXCEPT !.op = "restore_handler",
                            !.handler = restore_handler]
    /\ HandlerStep("restore_handler")

WithHandlerEnter(handler) ==
    /\ Len(call.stack) < MaxDepth
    /\ LET e == with_handler_enter(call.handler, handler) IN
       call' = [call EXCEPT !.op = "with_handler",
                            !.handler = e.installed,
                            !.stack = Append(@, [at_entry |-> call.handler,
                                                 old_handler |-> e.old_handler])]
    /\ HandlerStep("with_handler")

\* The innermost with_handler block is left, normally or by an exception.
WithHandlerLeave(how) ==
    /\ call.stack # <<>>
    /\ LET frame == call.stack[Len(call.stack)] IN
       call' = [call EXCEPT !.op = "leave",
                            !.handler = with_handler_exit(frame.old_handler),
                            !.stack = SubSeq(@, 1, Len(@) - 1),
                            !.left = [at_entry |-> frame.at_entry,
                                      old_handler |-> frame.old_handler,
                                      how |-> how]]
    /\ HandlerStep("leave")

\* The library raises exc and calls exception_handler.
Throw(exc) ==
    /\ LET r == exception_handler(call.handler, exc) IN
       call' = [call EXCEPT !.op = "throw", !.exc = exc,
                            !.installed = call.handler, !.ret = r.ret,
                            !.last_message = r.last_message, !.log = r.log]
    /\ HandlerStep("throw")

NextHandler ==
    \/ \E handler \in Handlers : RegisterHandler(handler)
    \/ RestoreHandler
    \/ \E handler \in Handlers : WithHandlerEnter(handler)
    \/ \E how \in {"normal", "exception"} : WithHandlerLeave(how)
    \/ \E exc \in Exceptions : Throw(exc)

SpecHandler == InitHandler /\ [][NextHandler]_vars

\* C17: whatever the nesting of with_handler blocks and the handlers
\* registered inside them, when a with_handler block is left, normally or
\* through an exception, the handler installed is the one that was
\* installed when the block was entered, and none if none was.
C17_HandlerRestoredOnExit ==
    call.op = "leave" => call.handler = call.left.at_entry

\* An inner block was left through an exception, and the handler that was
\* installed at its entry, not the one installed before the outer block,
\* is installed again.
C17_Witness ==
    /\ call.op = "leave"
    /\ call.left.how = "exception"
    /\ Len(call.stack) = 1
    /\ call.left.at_entry # NULL
    /\ call.handler = call.left.at_entry
    /\ call.left.at_entry # call.stack[1].at_entry

\* The handler installed when the last exception was raised returned a
\* value the exception allows: UNHANDLED or one of its options.
AnsweredValidly ==
    /\ call.installed # NULL
    /\ ~call.installed.raises
    /\ \/ call.installed.value = UNHANDLED
       \/ HasBit(call.exc.options, call.installed.value)

\* C18: the resolution exception_handler gives the library is UNHANDLED or
\* one of the options the exception allows; it is what the installed
\* handler returned when that is UNHANDLED or allowed, and UNHANDLED when
\* no handler is installed, whatever the type of the exception, when the
\* handler returned an option that is not allowed and when the handler
\* raised; the message of the exception is recorded as the last message
\* in each of these cases.
C18_ResolutionIsAllowed ==
    call.op = "throw" =>
        /\ call.ret = UNHANDLED \/ HasBit(call.exc.options, call.ret)
        /\ call.ret \in Option
        /\ AnsweredValidly => call.ret = call.installed.value
        /\ ~AnsweredValidly => call.ret = UNHANDLED
        /\ call.last_message = call.exc.message

\* The installed handler answered FIX to an exception that allows only YES
\* and NO, and the library was told UNHANDLED.
C18_Witness ==
    /\ call.op = "throw"
    /\ call.installed = [raises |-> FALSE, value |-> FIX]
    /\ call.exc.options = YES + NO
    /\ call.exc.type = FATAL
    /\ call.ret = UNHANDLED
    /\ call.last_message = "a"
    /\ call.log = "warning"

\* The sector a Device.read or Device.write asked at start acts at, a
\* negative start being counted from the end of the device.
FromEnd(start) == IF start < 0 THEN DevLen + start ELSE start

\* The contents after count sectors of Mark are written at sector at.
Marked(mem, at, count) ==
    [i \in Sectors |-> IF at <= i /\ i < at + count THEN Mark ELSE mem[i]]

\* C19 with a write that is not counted from the end: a Device.read or
\* Device.write of a range that goes beyond the length of the device
\* raises IOError and transfers nothing; a read at a negative start s
\* reads from sector length + s; a write at a negative start does not
\* write at length + s.
C19_NegativeStartOnReadOnly ==
    [][(result'.op \in {"Device.read", "Device.write"} /\ call'.native) =>
          /\ (call'.start >= 0 /\ call'.start + call'.count > DevLen) =>
                /\ result'.exc = "IOError"
                /\ call'.val = NULL
                /\ sectors' = sectors
          /\ (/\ result'.op = "Device.read"
              /\ call'.start < 0
              /\ FromEnd(call'.start) >= 0
              /\ FromEnd(call'.start) + call'.count <= DevLen) =>
                /\ result'.exc = "none"
                /\ call'.val = [i \in 1 .. call'.count |->
                                   sectors[FromEnd(call'.start) + i - 1]]
          /\ (result'.op = "Device.write" /\ call'.start < 0) =>
                sectors' = sectors]_vars

\* C19: a Device.read of a range that goes beyond the length of the
\* device raises IOError and returns nothing, and so does a Device.write
\* the library refuses, which on a device that is a regular file it does
\* not for a range beyond the length; Device.read and Device.write at a
\* negative start s both act at sector length + s, and fail with IOError
\* when that is still negative.
C19_NegativeStartFromEnd ==
    [][(result'.op \in {"Device.read", "Device.write"} /\ call'.native) =>
          /\ result'.op = "Device.read" =>
                IF \/ FromEnd(call'.start) < 0
                   \/ FromEnd(call'.start) + call'.count > DevLen
                THEN /\ result'.exc = "IOError"
                     /\ call'.val = NULL
                     /\ sectors' = sectors
                ELSE /\ result'.exc = "none"
                     /\ call'.val = [i \in 1 .. call'.count |->
                                        sectors[FromEnd(call'.start) + i - 1]]
                     /\ sectors' = sectors
          /\ result'.op = "Device.write" =>
                IF \/ FromEnd(call'.start) < 0
                   \/ /\ ~call'.file
                      /\ FromEnd(call'.start) + call'.count > DevLen
                THEN /\ result'.exc = "IOError"
                     /\ sectors' = sectors
                ELSE /\ result'.exc = "none"
                     /\ sectors' = Marked(sectors, FromEnd(call'.start),
                                          call'.count)]_vars

\* A write at start -2 has put its sector at length - 2.
C19_Witness ==
    /\ result = Res("Device.write", "none")
    /\ call.start = -2
    /\ call.count = 1
    /\ sectors[DevLen - 2] = Mark
    /\ sectors[DevLen - 1] # Mark

\* A write of a range beyond the length of a device that is a regular
\* file has returned without raising.
WriteBeyondLengthOfFile ==
    /\ result = Res("Device.write", "none")
    /\ call.file
    /\ call.start = DevLen

(***************************************************************************)
(* SpecReread: on a device open for writing a table of either label type   *)
(* is filled with primary, extended and logical partitions, which are      *)
(* resized, named, flagged and deleted; the table is committed, where a    *)
(* write may fail, and read again from the device.                         *)
(***************************************************************************)
InitReread ==
    /\ sectors = [i \in Sectors |-> i + 1]
    /\ open_count = 1
    /\ read_only = FALSE
    /\ external_mode = FALSE
    /\ dev_label = NULL
    /\ disk = NULL
    /\ floating = NULL
    /\ handles = <<>>
    /\ heap = <<>>
    /\ result = Res("open", "none")
    /\ call = NULL

\* The constraint of a partition at start to end and nowhere else.
ExactAt(start, end) ==
    ped_constraint_new(Alignment(0, 1), Alignment(0, 1), Geometry(start, 1),
                       Geometry(end, 1), 1, DevLen)

RereadInputs == {<<NORMAL, 1, 1>>, <<EXTENDED, 2, 4>>, <<LOGICAL, 4, 4>>}

NextReread ==
    \/ \E label_type \in LabelTypes : NewTable(label_type)
    \/ \E in \in RereadInputs :
           CreatePartition(in[1], in[2], in[3], ExactAt(in[2], in[3]))
    \/ \E part \in Parts(disk) : DeletePartition(part)
    \/ \E part \in Parts(disk) :
           SetPartitionGeometry(part, ExactAt(1, 1), 1, 1)
    \/ \E part \in Parts(disk) : SetName(part, "a")
    \/ \E part \in Parts(disk) : SetFlag(part, TRUE)
    \/ \E written \in 0 .. MaxWrites : Commit(written)
    \/ ReadTable

SpecReread == InitReread /\ [][NextReread]_vars

\* What two partition lists are compared by: the geometry, type, flags
\* and name of each node, in list order.
NodeView(p) == <<p.start, p.length, p.type, p.boot, p.name>>

ListView(d) ==
    LET list == Disk_partitions(d) IN
    [i \in 1 .. Len(list) |-> NodeView(list[i])]

RereadOfLogical ==
    /\ result = Res("commit_to_dev", "none")
    /\ disk # NULL
    /\ disk.type = "msdos"
    /\ \E p \in disk.parts : p.type = LOGICAL /\ p.boot
    /\ dev_label.ebr # <<>>

(***************************************************************************)
(* Constraint.align(dev, align).                                           *)
(***************************************************************************)
\* Constraint.align that takes its boundary in bytes.
Constraint_align_bytes(sector_size, align) ==
    LET grain == (align + sector_size - 1) \div sector_size IN
    Constraint_new(Alignment(0, grain), Alignment(-1, grain),
                   Geometry(0, DevLen), Geometry(0, DevLen), grain, DevLen)

\* Constraint.align on a device of DevLen sectors of sector_size bytes:
\* the boundary is multiplied by 1024 and rounded up to whole sectors.
Constraint_align(sector_size, align) ==
    LET grain == (align * 1024 + sector_size - 1) \div sector_size IN
    Constraint_new(Alignment(0, grain), Alignment(-1, grain),
                   Geometry(0, DevLen), Geometry(0, DevLen), grain, DevLen)

(***************************************************************************)
(* SpecBoundary: a constraint is built by Constraint.align for a boundary  *)
(* and a sector size, geometries are tested against it and a partition is  *)
(* created under it on an empty msdos table.                               *)
(***************************************************************************)
MaxBoundary == 12   \* largest boundary drawn for Constraint.align

\* The sector sizes of the devices: 512 bytes and 4 KiB.
SectorSizes == {512, 4096}

InitBoundary ==
    /\ sectors = [i \in Sectors |-> i + 1]
    /\ open_count = 0
    /\ read_only = FALSE
    /\ external_mode = FALSE
    /\ dev_label = NULL
    /\ disk = Device_new_table("msdos")
    /\ floating = NULL
    /\ handles = <<>>
    /\ heap = <<>>
    /\ result = Res("init", "none")
    /\ \E align \in 0 .. MaxBoundary, sector_size \in SectorSizes :
           call = [op |-> "init", align |-> align,
                   sector_size |-> sector_size, built |-> Raise("none"),
                   g |-> NULL, accepted |-> FALSE]

BoundaryUnchanged ==
    UNCHANGED <<sectors, open_count, read_only, external_mode, dev_label,
                floating, handles, heap>>

\* Constraint.align(dev, align)
BuildAlign ==
    /\ call.op = "init"
    /\ call' = [call EXCEPT !.op = "align",
                   !.built = Constraint_align(call.sector_size, call.align)]
    /\ result' = Res("align", Constraint_align(call.sector_size,
                                               call.align).exc)
    /\ UNCHANGED disk
    /\ BoundaryUnchanged

\* constraint.is_solution(g)
TestAlign(g) ==
    /\ call.op \in {"align", "is_solution"}
    /\ call.built.exc = "none"
    /\ call' = [call EXCEPT !.op = "is_solution", !.g = g,
                   !.accepted = Constraint_is_solution(call.built.val, g).val]
    /\ result' = Res("is_solution", "none")
    /\ UNCHANGED disk
    /\ BoundaryUnchanged

\* disk.create_partition(NORMAL, start, end, constraint) on the empty table
CreateAligned(start, end) ==
    /\ call.op \in {"align", "is_solution"}
    /\ call.built.exc = "none"
    /\ disk.parts = {}
    /\ Returns("create_partition",
               Disk_create_partition(disk, NORMAL, start, end,
                                     call.built.val))
    /\ call' = [call EXCEPT !.op = "create_partition"]
    /\ BoundaryUnchanged

NextBoundary ==
    \/ BuildAlign
    \/ \E g \in AllGeoms : TestAlign(g)
    \/ \E se \in EditRanges : CreateAligned(se[1], se[2])

SpecBoundary == InitBoundary /\ [][NextBoundary]_vars

\* b divided by s, rounded up.
CeilDiv(b, s) == (b + s - 1) \div s

\* What holds of a constraint built for grain g: both alignments have
\* grain g, both ranges span the device, and every geometry accepted and
\* every partition created has start, end + 1 and length a multiple of g,
\* with length at least g.
AlignedTo(g) ==
    /\ call.built.exc = "none" =>
          /\ call.built.val # NULL
          /\ call.built.val.start_align.grain_size = g
          /\ call.built.val.end_align.grain_size = g
          /\ call.built.val.start_range = Geometry(0, DevLen)
          /\ call.built.val.end_range = Geometry(0, DevLen)
    /\ (call.op = "is_solution" /\ call.accepted) =>
          /\ call.g.start % g = 0
          /\ (GeomEnd(call.g) + 1) % g = 0
          /\ call.g.length % g = 0
          /\ call.g.length >= g
    /\ call.op = "create_partition" =>
          \A p \in disk.parts :
              /\ p.start % g = 0
              /\ (PartEnd(p) + 1) % g = 0
              /\ p.length % g = 0
              /\ p.length >= g

\* C21 with the boundary in bytes: the grain of Constraint.align(dev, b)
\* is b divided by the sector size, rounded up, and every geometry
\* accepted and every partition created is aligned to it.
C21_GrainIsBytesInSectors ==
    (call.op # "init" /\ call.align > 0) =>
        AlignedTo(CeilDiv(call.align, call.sector_size))

\* C21: the grain of Constraint.align(dev, b) is b * 1024 bytes divided by
\* the sector size, rounded up; both alignments have it and both ranges
\* span the device, and every geometry accepted and every partition
\* created under the constraint has start, end + 1 and length a multiple
\* of the grain, with length at least the grain.
C21_GrainIsKiBInSectors ==
    (call.op # "init" /\ call.align > 0) =>
        AlignedTo(CeilDiv(call.align * 1024, call.sector_size))

\* A partition was created under the constraint of a boundary of 5 KiB on
\* 4 KiB sectors, whose grain is 2 sectors.
C21_Witness ==
    /\ call.op = "create_partition"
    /\ call.align = 5
    /\ call.sector_size = 4096
    /\ result.exc = "none"
    /\ disk.parts # {}
    /\ \A p \in disk.parts : p.start % 2 = 0 /\ p.length % 2 = 0

(***************************************************************************)
(* Rounding a sector to an alignment inside a geometry.                    *)
(***************************************************************************)
\* Alignment.align_up
Alignment_align_up(a, g, sector) ==
    IF ~Alignment_bool(a) THEN Raise("InvalidObjectError")
    ELSE Ok(ped_alignment_align_up(a, g, sector))

\* Alignment.align_down
Alignment_align_down(a, g, sector) ==
    IF ~Alignment_bool(a) THEN Raise("InvalidObjectError")
    ELSE Ok(ped_alignment_align_down(a, g, sector))

\* Alignment.align_nearest
Alignment_align_nearest(a, g, sector) ==
    IF ~Alignment_bool(a) THEN Raise("InvalidObjectError")
    ELSE Ok(ped_alignment_align_nearest(a, g, sector))

\* The sectors rounded: a few on either side of the device as well.
RoundSectors == (-2) .. (DevLen + 1)

InitRound ==
    /\ Idle
    /\ \E a \in AlignInputs, g \in AllGeoms, x \in RoundSectors,
          y \in RoundSectors :
           /\ x <= y
           /\ call = [op |-> "init", a |-> a, g |-> g, x |-> x, y |-> y,
                      rx |-> NULL, ry |-> NULL, rr |-> NULL]

\* One rounding applied to x, to y, and again to what x gave.
RoundUp ==
    /\ call.op = "init"
    /\ LET rx == Alignment_align_up(call.a, call.g, call.x)
           ry == Alignment_align_up(call.a, call.g, call.y)
       IN /\ call' = [call EXCEPT
                 !.op = "align_up", !.rx = rx, !.ry = ry,
                 !.rr = IF rx.exc = "none"
                        THEN Alignment_align_up(call.a, call.g, rx.val)
                        ELSE rx]
          /\ result' = Res("align_up", rx.exc)
    /\ UNCHANGED <<sectors, open_count, read_only, external_mode, dev_label,
                   disk, floating, handles, heap>>

RoundDown ==
    /\ call.op = "init"
    /\ LET rx == Alignment_align_down(call.a, call.g, call.x)
           ry == Alignment_align_down(call.a, call.g, call.y)
       IN /\ call' = [call EXCEPT
                 !.op = "align_down", !.rx = rx, !.ry = ry,
                 !.rr = IF rx.exc = "none"
                        THEN Alignment_align_down(call.a, call.g, rx.val)
                        ELSE rx]
          /\ result' = Res("align_down", rx.exc)
    /\ UNCHANGED <<sectors, open_count, read_only, external_mode, dev_label,
                   disk, floating, handles, heap>>

RoundNearest ==
    /\ call.op = "init"
    /\ LET rx == Alignment_align_nearest(call.a, call.g, call.x)
           ry == Alignment_align_nearest(call.a, call.g, call.y)
       IN /\ call' = [call EXCEPT
                 !.op = "align_nearest", !.rx = rx, !.ry = ry,
                 !.rr = IF rx.exc = "none"
                        THEN Alignment_align_nearest(call.a, call.g, rx.val)
                        ELSE rx]
          /\ result' = Res("align_nearest", rx.exc)
    /\ UNCHANGED <<sectors, open_count, read_only, external_mode, dev_label,
                   disk, floating, handles, heap>>

NextRound == RoundUp \/ RoundDown \/ RoundNearest

SpecRound == InitRound /\ [][NextRound]_vars

\* The sectors of the call's geometry that meet the call's alignment.
CallAligned == {s \in call.g.start .. (call.g.start + call.g.length - 1) :
                   (s - call.a.offset) % call.a.grain_size = 0}

\* The claim's case: a rounding was applied, the grain is positive and the
\* geometry holds an aligned sector.
RoundCase ==
    /\ call.op # "init"
    /\ call.a # NULL
    /\ call.a.grain_size > 0
    /\ CallAligned # {}

\* Where a sector outside the geometry must land.
ClampedFrom(x, r) ==
    /\ x < call.g.start => r = Min(CallAligned)
    /\ x > call.g.start + call.g.length - 1 => r = Max(CallAligned)

\* C22: with a positive grain and a geometry g holding an aligned sector,
\* for x <= y align_up and align_down keep the order of x and y, align_up
\* applied to its own result gives that result again, and align_up,
\* align_down and align_nearest each return an aligned sector of g, the
\* first one for an input below g and the last one for an input above g.
C22_RoundingInsideGeometry ==
    RoundCase =>
        /\ call.rx.exc = "none" /\ call.ry.exc = "none"
        /\ call.rx.val \in CallAligned
        /\ call.ry.val \in CallAligned
        /\ call.op \in {"align_up", "align_down"} =>
               call.rx.val <= call.ry.val
        /\ call.op = "align_up" => call.rr = call.rx
        /\ ClampedFrom(call.x, call.rx.val)
        /\ ClampedFrom(call.y, call.ry.val)

\* Odd sectors in the upper half of the device: a sector below the geometry
\* rounds up to its first odd sector, a later one inside it to a later odd
\* sector, and rounding the first result again leaves it.
C22_Witness ==
    /\ RoundCase
    /\ call.op = "align_up"
    /\ call.a = Alignment(1, 2)
    /\ call.g = Geometry(DevLen \div 2, DevLen \div 2)
    /\ call.x = 0
    /\ call.rx.val = DevLen \div 2
    /\ call.ry.val > call.rx.val
    /\ call.rr = call.rx

(***************************************************************************)
(* SpecList: the table is edited as under Spec, and its nodes are listed.  *)
(***************************************************************************)
\* Disk.get_extended_partition
Disk_get_extended_partition(d) ==
    IF d = NULL THEN Raise("InvalidObjectError")
    ELSE IF HasBit(DiskType_features(d.type), FEATURE_EXTENDED)
    THEN Ok(ped_disk_extended_partition(d))
    ELSE Raise("InvalidPartitionError")

\* The loop of extended_list: from a node along the field next, to the end.
RECURSIVE ExtendedLoop(_, _)
ExtendedLoop(d, part) ==
    IF part = NULL THEN <<>>
    ELSE <<part>> \o ExtendedLoop(d, part_next(d, part))

\* Partition.extended_list: for a partition whose type holds EXTENDED, the
\* node its field part_list points at and those that follow it.
Partition_extended_list(d, part) ==
    IF part # NULL /\ HasBit(part.type, EXTENDED)
    THEN ExtendedLoop(d, part_part_list(d, part))
    ELSE <<>>

\* Partition.extended_list_free: the nodes with "part.type & FREE".
IsFreeInList(p) == HasBit(p.type, FREE)

Partition_extended_list_free(d, part) ==
    SelectSeq(Partition_extended_list(d, part), IsFreeInList)

ListFilters == {"all", "active", "free"}

\* The types partitions_list is called with: the three it knows and one it
\* does not.
ListTypes == ListFilters \cup {"bogus"}

\* The extended partition a caller gets hold of: none where the call
\* raises.
ExtendedOf(d) ==
    IF Disk_get_extended_partition(d).exc = "none"
    THEN Disk_get_extended_partition(d).val
    ELSE NULL

\* list(partitions_list(type)): the generator is run to its end in one
\* go, next to partitions_list('all') and the two lists of the extended
\* partition.
ListPartitions(type) ==
    /\ disk # NULL
    /\ call' = [op |-> "partitions_list", type |-> type,
                all |-> Disk_partitions(disk),
                val |-> Disk_list(disk, type).val,
                ext |-> Partition_extended_list(disk, ExtendedOf(disk)),
                ext_free |->
                    Partition_extended_list_free(disk, ExtendedOf(disk))]
    /\ result' = Res("partitions_list", Disk_list(disk, type).exc)
    /\ UNCHANGED disk
    /\ UnchangedDevice

\* The calls made on the table while a generator is suspended.
MaxEdits == 1

\* partitions_list(type) is called: a generator that has not run yet.
ListStart(type) ==
    /\ call' = [op |-> "generator", type |-> type, held |-> START,
                live |-> TRUE, out |-> <<>>, exc |-> "none", edits |-> 0]
    /\ result' = Res("partitions_list", "none")
    /\ UNCHANGED disk
    /\ UnchangedDevice

Suspended == call # NULL /\ call.op = "generator" /\ call.exc = "none"

\* What a resume leaves: the node yielded is held and handed out, or the
\* generator is over.
Resumed(r) ==
    /\ call' = [call EXCEPT
                   !.held = IF r.exc = "none" THEN r.part ELSE @,
                   !.live = TRUE,
                   !.out = IF r.exc = "none" THEN Append(@, r.part) ELSE @,
                   !.exc = r.exc]
    /\ result' = Res("next", r.exc)
    /\ UNCHANGED disk
    /\ UnchangedDevice

\* next(generator)
ListNext ==
    /\ Suspended
    /\ call.live
    /\ Resumed(Disk_partitions_list(disk, call.type, call.held))

\* next(generator) when the node held has been freed by a call on the
\* table: what ped_disk_next_partition reads through the pointer is
\* undefined; it hands out any node of the table or none, or the process
\* ends.
NextOfFreed(d, type) ==
    {ListLoop(d, type, part) : part \in Handles(d) \cup {NULL}}
        \cup {[part |-> NULL, exc |-> "abort"]}

ListNextFreed ==
    /\ Suspended
    /\ ~call.live
    /\ \E r \in NextOfFreed(disk, call.type) : Resumed(r)

\* The node a suspended generator holds after a call has changed the
\* table: a partition of the table is still that partition while its
\* number is in the table; a partition that was deleted has been freed,
\* and so has every free-space and metadata node, made anew by the call.
HeldAfter(held, d) ==
    IF held = START THEN [held |-> START, live |-> TRUE]
    ELSE IF IsActiveNode(held) /\ \E p \in d.parts : p.num = held.num
    THEN [held |-> CHOOSE p \in d.parts : p.num = held.num, live |-> TRUE]
    ELSE [held |-> held, live |-> FALSE]

\* A call that changes the table while the generator is suspended.
ListEdited(op, r) ==
    /\ Suspended
    /\ call.edits < MaxEdits
    /\ r.exc = "none"
    /\ Returns(op, r)
    /\ call' = [call EXCEPT
                   !.held = HeldAfter(call.held, r.disk).held,
                   !.live = @ /\ HeldAfter(call.held, r.disk).live,
                   !.edits = @ + 1]
    /\ UnchangedDevice

ListEdit ==
    \/ \E part \in Parts(disk) :
           ListEdited("delete_partition", Disk_delete_partition(disk, part))
    \/ \E part \in Parts(disk), se \in ResizeRanges :
           ListEdited("set_partition_geometry",
                      Disk_set_partition_geometry(disk, part, Constraint_any,
                                                  se[1], se[2]))
    \/ ListEdited("delete_all_partitions", Disk_delete_all_partitions(disk))

\* The generator goes out of use, run to its end or not.
Listing == call # NULL /\ call.op = "generator"

ListDrop ==
    /\ Listing
    /\ call' = NULL
    /\ result' = Res("drop", "none")
    /\ UNCHANGED disk
    /\ UnchangedDevice

\* While a caller has a generator the calls on the table are those of
\* ListEdit, which keep track of the node it holds.
NextList ==
    \/ ~Listing /\ \E label_type \in LabelTypes : NewTable(label_type)
    \/ ~Listing /\ \E in \in CreateInputs :
                       CreatePartition(in[1], in[2][1], in[2][2], in[3])
    \/ ~Listing /\ \E part \in Handles(disk) : DeletePartition(part)
    \/ ~Listing /\ \E round \in Roundings, status \in {0, 1} :
                       MinimizeExtended(round, status)
    \/ ~Listing /\ DeleteAllPartitions
    \/ ~Listing /\ \E type \in ListTypes : ListPartitions(type)
    \/ ~Listing /\ \E type \in ListTypes : ListStart(type)
    \/ ListNext
    \/ ListNextFreed
    \/ ListEdit
    \/ ListDrop

SpecList == Init /\ [][NextList]_vars

Listed(type) ==
    call # NULL /\ call.op = "partitions_list" /\ call.type = type

\* A generator of the type resumed up to its end, with no call on the
\* table in between.
Drained(type) ==
    /\ Listing
    /\ call.type = type
    /\ call.exc = "StopIteration"
    /\ call.edits = 0

\* Resumed one node at a time on a table nobody touches, the generator
\* hands out what list() of it gives; for a type it does not know, it
\* raises at its first resume on any table.
GeneratorYieldsTheList ==
    /\ \A type \in ListFilters :
           Drained(type) => call.out = Disk_list(disk, type).val
    /\ (Listing /\ call.type = "bogus" /\ call.held # START) =>
           call.exc = "Exception" /\ call.out = <<>>
    /\ Listed("bogus") => result.exc = "Exception" /\ call.val = <<>>

\* A generator resumed across a call on the table hands out nodes of two
\* tables: two top-level nodes of its list share a sector.
YieldsOfTwoTables ==
    /\ Listing
    /\ call.edits > 0
    /\ call.live
    /\ \E i, j \in 1 .. Len(call.out) :
           /\ i < j
           /\ IsTopNode(call.out[i]) /\ IsTopNode(call.out[j])
           /\ PartSectors(call.out[i]) \cap PartSectors(call.out[j]) # {}

NeitherFreeNorMetadata(p) == ~HasBit(p.type, FREE) /\ ~HasBit(p.type, METADATA)

WithFreeBit(p) == HasBit(p.type, FREE)

FreeAndNothingElse(p) == p.type = FREE

FreeInsideExtended(p) == HasBit(p.type, FREE) /\ HasBit(p.type, LOGICAL)

\* C23 as stated: partitions_list('active') yields, in the order of 'all',
\* exactly the nodes with neither the FREE nor the METADATA bit, and
\* partitions_list('free') exactly the nodes with the FREE bit, the free
\* space inside the extended partition included.
C23_FreeListHasEveryFreeBit ==
    /\ Listed("active") =>
           call.val = SelectSeq(call.all, NeitherFreeNorMetadata)
    /\ Listed("free") => call.val = SelectSeq(call.all, WithFreeBit)

\* C23: partitions_list('active') yields, in the order of 'all', exactly
\* the nodes with neither the FREE nor the METADATA bit; partitions_list
\* ('free') yields, in that order, exactly the nodes whose type is FREE and
\* nothing else; the free space inside the extended partition, of type
\* LOGICAL + FREE, is left out of it and is what extended_list_free yields.
C23_FreeListIsTopLevelFree ==
    /\ Listed("active") =>
           call.val = SelectSeq(call.all, NeitherFreeNorMetadata)
    /\ Listed("free") =>
           /\ call.val = SelectSeq(call.all, FreeAndNothingElse)
           /\ call.ext_free = SelectSeq(call.all, FreeInsideExtended)
           /\ \A i \in 1 .. Len(call.val), j \in 1 .. Len(call.ext_free) :
                  call.val[i] # call.ext_free[j]
    /\ Drained("active") =>
           call.out = SelectSeq(Disk_partitions(disk), NeitherFreeNorMetadata)
    /\ Drained("free") =>
           call.out = SelectSeq(Disk_partitions(disk), FreeAndNothingElse)

\* The free list of a table whose extended partition holds free space
\* behind its metadata: free space on the top level is listed, the free
\* space inside the extended partition is not.
C23_Witness ==
    /\ Listed("free")
    /\ call.val # <<>>
    /\ call.ext_free # <<>>
    /\ \E i \in 1 .. Len(call.all) : call.all[i].type = LOGICAL + METADATA
    /\ Len(call.val) < Len(SelectSeq(call.all, WithFreeBit))

\* C24 as stated: partitions_list('all') yields no node whose type holds
\* LOGICAL.
C24_NoLogicalInAllList ==
    Listed("all") =>
        \A i \in 1 .. Len(call.val) : ~HasBit(call.val[i].type, LOGICAL)

\* Where the list holds the nodes of the sub-list, one after the other,
\* right after an extended partition.
RightAfterExtended(all, ext) ==
    \E i \in 1 .. Len(all) :
        /\ all[i].type = EXTENDED
        /\ i + Len(ext) <= Len(all)
        /\ SubSeq(all, i + 1, i + Len(ext)) = ext

\* C24: partitions_list('all') yields the nodes with the LOGICAL bit as
\* well: they are exactly the nodes of the extended partition's
\* extended_list, in its order and right after the extended partition, and
\* there is none in a table without an extended partition.
C24_LogicalNodesFollowExtended ==
    /\ Listed("all") =>
           /\ SelectSeq(call.val, IsLogicalNode) = call.ext
           /\ call.ext # <<>> => RightAfterExtended(call.val, call.ext)
           /\ ped_disk_extended_partition(disk) = NULL => call.ext = <<>>
    /\ Drained("all") =>
           SelectSeq(call.out, IsLogicalNode)
               = Partition_extended_list(disk, ExtendedOf(disk))

\* The whole list of a table with a logical partition: the logical
\* partition, its metadata and the free space of the extended partition
\* are in it.
C24_Witness ==
    /\ Listed("all")
    /\ \E i \in 1 .. Len(call.val) : call.val[i].type = LOGICAL
    /\ \E i \in 1 .. Len(call.val) : call.val[i].type = LOGICAL + METADATA
    /\ Len(call.ext) >= 2

(***************************************************************************)
(* SpecName: a table of either label type is filled, and a name is         *)
(* assigned through a handle on one of its nodes, or through a handle      *)
(* that holds no partition, and read back through the same handle.         *)
(***************************************************************************)
\* ped_partition_get_name: the name the native partition holds.
ped_partition_get_name(part) == part.name

\* Partition.name getter
Partition_name(d, part) ==
    IF ~Partition_is_valid(part)
           \/ ~HasBit(DiskType_features(d.type), FEATURE_NAME)
    THEN ""
    ELSE ped_partition_get_name(part)

PartNames == {"", "a", "b"}

\* What the handle points at once the table has changed: the native
\* partition of the same number, for a handle on a partition of the table.
SameNative(d, after, part) ==
    IF part # NULL /\ part \in d.parts
           /\ \E q \in after.parts : q.num = part.num
    THEN CHOOSE q \in after.parts : q.num = part.num
    ELSE part

\* part.name = name, then part.name is read.
AssignName(part, name) ==
    /\ disk # NULL
    /\ Returns("name", Partition_set_name(disk, part, name))
    /\ call' = [op |-> "name", part |-> part, name |-> name,
                read |-> Partition_name(
                    Partition_set_name(disk, part, name).disk,
                    SameNative(disk,
                               Partition_set_name(disk, part, name).disk,
                               part))]
    /\ UnchangedDevice

NextName ==
    \/ \E label_type \in LabelTypes : NewTable(label_type)
    \/ \E part_type \in EditTypes, se \in EditRanges :
           CreatePartition(part_type, se[1], se[2], NULL)
    \/ \E part \in Handles(disk) \cup {NULL}, name \in PartNames :
           AssignName(part, name)

SpecName == Init /\ [][NextName]_vars

Assigned == call # NULL /\ call.op = "name"

\* The cases in which the setter is to do nothing.
NothingToName(d, part) ==
    \/ part = NULL
    \/ HasBit(part.type, FREE) \/ HasBit(part.type, METADATA)
    \/ d.type # "gpt"

\* C25: an assignment to Partition.name raises nothing; on a handle that
\* holds no partition, on a free-space or metadata node and on a label type
\* without partition names it changes nothing and the name reads back as
\* ''; on an active partition of a label type with names the name read
\* back is the name assigned.
C25_NameAssignment ==
    [][(call' # NULL /\ call'.op = "name") =>
           /\ result'.exc = "none"
           /\ IF NothingToName(disk, call'.part)
              THEN disk' = disk /\ call'.read = ""
              ELSE call'.read = call'.name]_vars

\* A name given to a partition of a gpt table has been read back, while
\* another partition of the table keeps the empty name.
C25_Witness ==
    /\ Assigned
    /\ disk.type = "gpt"
    /\ call.name = "a"
    /\ call.read = "a"
    /\ \E p \in disk.parts : p.name = "a"
    /\ \E p \in disk.parts : p.name = ""

ped_geometry_set(g, start, length) ==
    IF start < 0 \/ length < 1 \/ start + length > DevLen
    THEN [ret |-> 0, g |-> g]
    ELSE [ret |-> 1, g |-> [start |-> start, length |-> length]]

\* ped_geometry_set_start and ped_geometry_set_end keep the other end.
ped_geometry_set_start(g, start) ==
    ped_geometry_set(g, start, GeomEnd(g) - start + 1)

ped_geometry_set_end(g, end) ==
    ped_geometry_set(g, g.start, end - g.start + 1)

\* What a native call on a geometry makes of the setter that made it.
GeomRaising(r) ==
    [exc |-> IF r.ret = 0 THEN "PartedException" ELSE "none", g |-> r.g]

\* Geometry.start, Geometry.length and Geometry.end setters: nothing to do
\* on a null handle.
Geometry_set_start(g, value) ==
    IF g = NULL THEN [exc |-> "none", g |-> g]
    ELSE GeomRaising(ped_geometry_set_start(g, value))

Geometry_set_length(g, value) ==
    IF g = NULL THEN [exc |-> "none", g |-> g]
    ELSE GeomRaising(ped_geometry_set(g, Geometry_start(g), value))

Geometry_set_end(g, value) ==
    IF g = NULL THEN [exc |-> "none", g |-> g]
    ELSE GeomRaising(ped_geometry_set_end(g, value))

\* A set that takes every start the library takes.
Geometry_set_from_zero(g, start, length) ==
    IF g = NULL THEN [exc |-> "InvalidObjectError", g |-> g]
    ELSE LET s == IF start = -1 THEN Geometry_start(g) ELSE start
             l == IF length = -1 THEN Geometry_length(g) ELSE length
         IN IF s < 0 THEN [exc |-> "PartedException", g |-> g]
            ELSE IF l <= 0 THEN [exc |-> "PartedException", g |-> g]
            ELSE GeomRaising(ped_geometry_set(g, s, l))

\* A set that does nothing on a null handle.
Geometry_set_silent(g, start, length) ==
    IF g = NULL THEN [exc |-> "none", g |-> g]
    ELSE Geometry_set_from_zero(g, start, length)

\* Geometry.set: -1 stands for the value the geometry has.
Geometry_set(g, start, length) ==
    IF g = NULL THEN [exc |-> "InvalidObjectError", g |-> g]
    ELSE LET s == IF start = -1 THEN Geometry_start(g) ELSE start
             l == IF length = -1 THEN Geometry_length(g) ELSE length
         IN IF s <= 0 THEN [exc |-> "PartedException", g |-> g]
            ELSE IF l <= 0 THEN [exc |-> "PartedException", g |-> g]
            ELSE GeomRaising(ped_geometry_set(g, s, l))

\* Alignment.init
Alignment_init(a, offset, grain_size) ==
    IF ~Alignment_bool(a) THEN Raise("InvalidObjectError")
    ELSE Ok(ped_alignment_new(offset, grain_size))

(***************************************************************************)
(* SpecNull: calls on wrappers that hold no native object.                 *)
(***************************************************************************)
\* The values handed to the setters and to set.
SetValues == (-1) .. (DevLen + 1)

\* util.ensure_obj: the method runs where the wrapper holds an object and
\* raises InvalidObjectError where it holds none.
ensure_obj(obj, run) ==
    IF obj = NULL THEN Raise("InvalidObjectError") ELSE run

\* util.ensure_obj_or_default: the default of the decorator where the
\* wrapper holds no object.
ensure_obj_or_default(obj, default, run) ==
    IF obj = NULL THEN Ok(default) ELSE run

\* util.ensure_valid_or_default('is_valid', default) on a partition.
ensure_valid_or_default(part, default, run) ==
    IF ~Partition_is_valid(part) THEN Ok(default) ELSE run

\* A field of the native object, or what the library answers for it.
NativeField(obj, name) == obj[name]

\* A wrapper made on no object (Device(), Disk(None), Geometry(None),
\* FileSystemType(), DiskType()) is its null handle; a CHSGeometry is its
\* three numbers.
CHSGeometry(cylinders, heads, sectors_) == <<cylinders, heads, sectors_>>

\* Device: the defaults of the property decorators.
Device_defaults ==
    [model |-> "Unknown", path |-> "", type |-> 0, sector_size |-> 0,
     phys_sector_size |-> 0, length |-> 0, open_count |-> 0,
     read_only |-> TRUE, external_mode |-> FALSE, dirty |-> FALSE,
     boot_dirty |-> FALSE, hw_geom |-> CHSGeometry(0, 0, 0),
     bios_geom |-> CHSGeometry(0, 0, 0), host |-> 0, did |-> 0,
     is_busy |-> FALSE, is_opened |-> FALSE]

Device_property(dev, name) ==
    ensure_obj_or_default(dev, Device_defaults[name], Ok(NativeField(dev, name)))

\* Device.size: sector_size * length, both read through their properties.
Device_size(dev) ==
    Ok(Device_property(dev, "sector_size").val
           * Device_property(dev, "length").val)

\* Device: the methods under @ensure_obj.
Device_methods ==
    {"wants_access", "open", "close", "read", "write", "copy", "sync",
     "sync_fast", "begin_external_access", "end_external_access", "probe",
     "clobber", "read_table", "new_table"}

Device_method(dev, name) == ensure_obj(dev, Ok(NativeField(dev, name)))

\* Timer: frac, start, now and predicted_end under their decorators;
\* state_name tests the handle itself and gives None.
Timer_defaults == [frac |-> 0, start |-> 0, now |-> 0, predicted_end |-> 0]

Timer_property(timer, name) ==
    IF name = "state_name"
    THEN (IF timer = NULL THEN Ok(NULL) ELSE Ok(NativeField(timer, name)))
    ELSE ensure_obj_or_default(timer, Timer_defaults[name],
                               Ok(NativeField(timer, name)))

Timer_methods == {"touch", "reset", "update"}

Timer_method(timer, name) == ensure_obj(timer, Ok(NativeField(timer, name)))

\* Constraint: every property tests the handle itself.
Constraint_defaults ==
    [start_align |-> Alignment_none, end_align |-> Alignment_none,
     start_range |-> NULL, end_range |-> NULL, min_size |-> 0,
     max_size |-> 0]

Constraint_property(c, name) ==
    IF c = NULL THEN Ok(Constraint_defaults[name]) ELSE Ok(NativeField(c, name))

Constraint_duplicate(c) == ensure_obj(c, Ok(c))

\* Alignment: offset and grain_size as a caller reads them.
Alignment_property(a, name) ==
    IF name = "offset" THEN Ok(Alignment_offset(a))
    ELSE Ok(Alignment_grain_size(a))

\* Alignment.duplicate: Alignment(None) of a null handle, nothing raised.
Alignment_duplicate(a) == ensure_obj_or_default(a, NULL, Ok(a))

\* Geometry.dev
Geometry_dev(g) == ensure_obj_or_default(g, NULL, Ok(NativeField(g, "dev")))

Geometry_property(g, name) ==
    IF name = "dev" THEN Geometry_dev(g)
    ELSE IF name = "start" THEN Ok(Geometry_start(g))
    ELSE IF name = "length" THEN Ok(Geometry_length(g))
    ELSE Ok(Geometry_end(g))

\* Partition: disk, geometry, num, type, fs_type and active are under
\* ensure_obj_or_default; path, flags and busy under
\* ensure_valid_or_default; name tests is_valid and the label itself.
Partition_defaults ==
    [disk |-> NULL, geometry |-> NULL, num |-> -9999, type |-> FREE,
     fs_type |-> NULL, path |-> "", flags |-> {}, busy |-> FALSE,
     active |-> FALSE]

Partition_property(d, part, name) ==
    IF name = "name" THEN Ok(Partition_name(d, part))
    ELSE IF name \in {"path", "flags", "busy"}
    THEN ensure_valid_or_default(part, Partition_defaults[name],
                                 Ok(NativeField(part, name)))
    ELSE ensure_obj_or_default(part, Partition_defaults[name],
                               Ok(NativeField(part, name)))

\* Disk: dev, type, last_partition_num, max_primary_partition_count and
\* flags under ensure_obj_or_default; partitions is the list.
Disk_defaults ==
    [dev |-> NULL, type |-> NULL, last_partition_num |-> 0,
     max_primary_partition_count |-> 0, flags |-> {}]

Disk_property(d, name) ==
    IF name = "partitions" THEN Ok(Disk_partitions(d))
    ELSE IF name = "flags" THEN Ok(Disk_flags(d))
    ELSE ensure_obj_or_default(d, Disk_defaults[name], Ok(NativeField(d, name)))

\* The properties a caller reads, by type.
Properties ==
    [Device |-> DOMAIN Device_defaults \cup {"size"},
     Timer |-> DOMAIN Timer_defaults \cup {"state_name"},
     Constraint |-> DOMAIN Constraint_defaults,
     Alignment |-> {"offset", "grain_size"},
     Geometry |-> {"dev", "start", "length", "end"},
     Partition |-> DOMAIN Partition_defaults \cup {"name"},
     Disk |-> DOMAIN Disk_defaults \cup {"partitions"}]

\* type(None).name
NullProperty(type, name) ==
    IF type = "Device"
    THEN (IF name = "size" THEN Device_size(NULL)
          ELSE Device_property(NULL, name))
    ELSE IF type = "Timer" THEN Timer_property(NULL, name)
    ELSE IF type = "Constraint" THEN Constraint_property(NULL, name)
    ELSE IF type = "Alignment" THEN Alignment_property(NULL, name)
    ELSE IF type = "Geometry" THEN Geometry_property(NULL, name)
    ELSE IF type = "Partition" THEN Partition_property(disk, NULL, name)
    ELSE Disk_property(NULL, name)

\* The properties of a geometry as a caller reads them.
GeomReads(g) ==
    [start |-> Geometry_start(g), length |-> Geometry_length(g),
     end |-> Geometry_end(g)]

InitNull ==
    /\ Idle
    /\ call = [op |-> "init", kind |-> "none", exc |-> "none",
               args |-> <<>>, after |-> NULL, reads |-> GeomReads(NULL)]

NullUnchanged ==
    UNCHANGED <<sectors, open_count, read_only, external_mode, dev_label,
                disk, floating, handles, heap>>

\* One call on a null handle: what it raised, what the handle holds
\* afterwards, and what its properties read as.
NullCall(op, kind, args, exc, after, reads) ==
    /\ call' = [op |-> op, kind |-> kind, exc |-> exc, args |-> args,
                after |-> after, reads |-> reads]
    /\ result' = Res(op, exc)
    /\ NullUnchanged

\* A property of a null wrapper is read.
NullRead(type, name) ==
    LET r == NullProperty(type, name)
    IN NullCall(type \o "." \o name, "property", <<type, name>>, r.exc,
                NULL, [value |-> r.val])

NullGeometrySetter(field, value) ==
    LET r == IF field = "start" THEN Geometry_set_start(NULL, value)
             ELSE IF field = "length" THEN Geometry_set_length(NULL, value)
             ELSE Geometry_set_end(NULL, value)
    IN NullCall("Geometry." \o field, "setter", <<value>>, r.exc, r.g,
                GeomReads(r.g))

NullGeometrySet(start, length) ==
    LET r == Geometry_set(NULL, start, length)
    IN NullCall("Geometry.set", "method", <<start, length>>, r.exc, r.g,
                GeomReads(r.g))

NullGeometryWrite(offset) ==
    LET r == Geometry_write(sectors, NULL, BytesOf(Mark), offset)
    IN NullCall("Geometry.write", "method", <<offset>>, r.exc, NULL,
                GeomReads(NULL))

NullGeometrySync(fast, ok) ==
    LET r == IF fast THEN Geometry_sync_fast(sectors, NULL, ok)
             ELSE Geometry_sync(sectors, NULL, ok)
    IN NullCall(IF fast THEN "Geometry.sync_fast" ELSE "Geometry.sync",
                "method", <<ok>>, r.exc, NULL, GeomReads(NULL))

NullPartitionName(name) ==
    LET r == Partition_set_name(disk, NULL, name)
    IN NullCall("Partition.name", "setter", <<name>>, r.exc, r.disk,
                [name |-> Partition_name(disk, NULL)])

NullPartitionMethod(op) ==
    LET r == IF op = "Partition.set_flag"
             THEN Partition_set_flag(disk, NULL, TRUE)
             ELSE IF op = "Partition.delete"
             THEN Partition_delete(disk, heap, Partition(NULL))
             ELSE IF op = "Partition.add_to_disk"
             THEN Partition_add_to_disk(disk, heap, Partition(NULL),
                                        Constraint_any)
             ELSE IF op = "Partition.maximize"
             THEN Partition_maximize(disk, heap, Partition(NULL),
                                     Constraint_any)
             ELSE Partition_set_geometry(disk, heap, Partition(NULL),
                                         Constraint_any, 1, 2)
    IN NullCall(op, "method", <<>>, r.exc, r.disk,
                [name |-> Partition_name(disk, NULL)])

NullDiskMethod(op) ==
    LET r == IF op = "Disk.create_partition"
             THEN Disk_create_partition(NULL, NORMAL, 1, 2, NULL)
             ELSE IF op = "Disk.delete_partition"
             THEN Disk_delete_partition(NULL, NULL)
             ELSE IF op = "Disk.delete_all_partitions"
             THEN Disk_delete_all_partitions(NULL)
             ELSE IF op = "Disk.set_partition_geometry"
             THEN Disk_set_partition_geometry(NULL, NULL, Constraint_any,
                                              1, 2)
             ELSE IF op = "Disk.maximize_partition_geometry"
             THEN Disk_maximize_partition_geometry(NULL, NULL,
                                                   Constraint_any)
             ELSE IF op = "Disk.set_flag"
             THEN Disk_set_flag(NULL, CYLINDER_ALIGNMENT, TRUE)
             ELSE Disk_minimize_extended_partition(NULL, <<0, 0>>, 1)
    IN NullCall(op, "method", <<>>, r.exc, r.disk,
                [list |-> Disk_partitions(r.disk)])

NullDiskCommit(written) ==
    LET r == Disk_commit_to_dev(NULL, dev_label, written)
    IN /\ r.label = dev_label
       /\ NullCall("Disk.commit_to_dev", "method", <<written>>, r.exc, NULL,
                   [list |-> Disk_partitions(NULL)])

NullAlignmentInit(offset, grain_size) ==
    LET r == Alignment_init(NULL, offset, grain_size)
    IN NullCall("Alignment.init", "method", <<offset, grain_size>>, r.exc,
                r.val, [offset |-> Alignment_offset(r.val),
                        grain_size |-> Alignment_grain_size(r.val)])

NullAlignmentMethod(op, sector) ==
    LET r == IF op = "Alignment.intersect"
             THEN Alignment_intersect(NULL, NULL)
             ELSE IF op = "Alignment.align_up"
             THEN Alignment_align_up(NULL, NULL, sector)
             ELSE IF op = "Alignment.align_down"
             THEN Alignment_align_down(NULL, NULL, sector)
             ELSE Alignment_align_nearest(NULL, NULL, sector)
    IN NullCall(op, "method", <<sector>>, r.exc, NULL,
                [offset |-> Alignment_offset(NULL),
                 grain_size |-> Alignment_grain_size(NULL)])

NullConstraintMethod(op) ==
    LET r == IF op = "Constraint.duplicate" THEN Constraint_duplicate(NULL)
             ELSE IF op = "Constraint.intersect"
             THEN Constraint_intersect(NULL, Constraint_any)
             ELSE IF op = "Constraint.is_solution"
             THEN Constraint_is_solution(NULL, Geometry(1, 2))
             ELSE IF op = "Constraint.solve_max"
             THEN Constraint_solve_max(NULL)
             ELSE Constraint_solve_nearest(NULL, Geometry(1, 2))
    IN NullCall(op, "method", <<>>, r.exc, NULL,
                [value |-> Constraint_property(NULL, "max_size").val])

NullDeviceMethod(name) ==
    LET r == Device_method(NULL, name)
    IN NullCall("Device." \o name, "method", <<>>, r.exc, NULL,
                [value |-> Device_property(NULL, "open_count").val])

NullTimerMethod(name) ==
    LET r == Timer_method(NULL, name)
    IN NullCall("Timer." \o name, "method", <<>>, r.exc, NULL,
                [value |-> Timer_property(NULL, "now").val])

PartitionMethods ==
    {"Partition.set_flag", "Partition.delete", "Partition.add_to_disk",
     "Partition.maximize", "Partition.set_geometry"}

DiskMethods ==
    {"Disk.create_partition", "Disk.delete_partition",
     "Disk.delete_all_partitions", "Disk.set_partition_geometry",
     "Disk.maximize_partition_geometry", "Disk.set_flag",
     "Disk.minimize_extended_partition"}

AlignmentMethods ==
    {"Alignment.intersect", "Alignment.align_up", "Alignment.align_down",
     "Alignment.align_nearest"}

ConstraintMethods ==
    {"Constraint.duplicate", "Constraint.intersect",
     "Constraint.is_solution", "Constraint.solve_max",
     "Constraint.solve_nearest"}

NextNull ==
    \/ \E type \in DOMAIN Properties :
           \E name \in Properties[type] : NullRead(type, name)
    \/ \E field \in {"start", "length", "end"}, value \in SetValues :
           NullGeometrySetter(field, value)
    \/ \E start \in SetValues, length \in SetValues :
           NullGeometrySet(start, length)
    \/ \E offset \in SetValues : NullGeometryWrite(offset)
    \/ \E fast \in BOOLEAN, ok \in BOOLEAN : NullGeometrySync(fast, ok)
    \/ \E name \in PartNames : NullPartitionName(name)
    \/ \E op \in PartitionMethods : NullPartitionMethod(op)
    \/ \E op \in DiskMethods : NullDiskMethod(op)
    \/ \E written \in {0, MaxWrites} : NullDiskCommit(written)
    \/ \E offset \in SetValues, grain_size \in 0 .. MaxGrain :
           NullAlignmentInit(offset, grain_size)
    \/ \E op \in AlignmentMethods, sector \in SetValues :
           NullAlignmentMethod(op, sector)
    \/ \E op \in ConstraintMethods : NullConstraintMethod(op)
    \/ \E name \in Device_methods : NullDeviceMethod(name)
    \/ \E name \in Timer_methods : NullTimerMethod(name)

SpecNull == InitNull /\ [][NextNull]_vars

\* The zero, empty or Unknown value of every property, as the tests of
\* the null wrappers read them (test_device_null, test_constraint_null,
\* test_alignment_null, test_geometry_null_works, test_partition_null and
\* the empty table of test_disk_empty); a timer's readings are zeros.  A
\* null handle stands for a wrapper made on nothing, which is falsy.
NullReads ==
    [Device |->
         [model |-> "Unknown", path |-> "", type |-> 0, sector_size |-> 0,
          phys_sector_size |-> 0, length |-> 0, size |-> 0,
          open_count |-> 0, read_only |-> TRUE, external_mode |-> FALSE,
          dirty |-> FALSE, boot_dirty |-> FALSE, hw_geom |-> <<0, 0, 0>>,
          bios_geom |-> <<0, 0, 0>>, host |-> 0, did |-> 0,
          is_busy |-> FALSE],
     Timer |-> [frac |-> 0, start |-> 0, now |-> 0, predicted_end |-> 0],
     Constraint |->
         [start_align |-> [offset |-> 0, grain_size |-> 0],
          end_align |-> [offset |-> 0, grain_size |-> 0],
          start_range |-> NULL, end_range |-> NULL, min_size |-> 0,
          max_size |-> 0],
     Alignment |-> [offset |-> 0, grain_size |-> 0],
     Geometry |-> [dev |-> NULL, start |-> 0, length |-> 0, end |-> 0],
     Partition |->
         [disk |-> NULL, num |-> -9999, type |-> FREE, fs_type |-> NULL,
          path |-> "", flags |-> {}, name |-> "", busy |-> FALSE,
          active |-> FALSE],
     Disk |->
         [dev |-> NULL, type |-> NULL, partitions |-> <<>>,
          last_partition_num |-> 0, max_primary_partition_count |-> 0]]

\* What the properties of a null handle read as, after any call.
NullDefaults ==
    /\ call.after = NULL
    /\ IF call.kind = "property"
       THEN /\ call.exc = "none"
            /\ call.args[2] \in DOMAIN NullReads[call.args[1]] =>
                   call.reads.value
                       = NullReads[call.args[1]][call.args[2]]
       ELSE /\ call.op \in {"Geometry.start", "Geometry.length",
                            "Geometry.end", "Geometry.set",
                            "Geometry.write", "Geometry.sync",
                            "Geometry.sync_fast"}
                   => call.reads = [start |-> 0, length |-> 0, end |-> 0]
            /\ call.op \in {"Partition.name"} \cup PartitionMethods
                   => call.reads = [name |-> ""]
            /\ call.op \in DiskMethods \cup {"Disk.commit_to_dev"}
                   => call.reads = [list |-> <<>>]
            /\ call.op \in {"Alignment.init"} \cup AlignmentMethods
                   => call.reads = [offset |-> 0, grain_size |-> 0]
            /\ (call.kind = "method" /\ call.args = <<>>
                    /\ call.op \notin PartitionMethods \cup DiskMethods)
                   => call.reads = [value |-> 0]

\* C27 as stated: on a null handle the properties read as their defaults
\* and every mutating call, property setters included, raises.
C27_NullMutationRaises ==
    call.kind \in {"method", "setter"} => (NullDefaults /\ call.exc # "none")

\* C27: on a null handle (Alignment, Geometry, Constraint, Device, Disk,
\* Partition, Timer) the properties read as their defaults and raise
\* nothing; the methods (init, set, open, write, add, delete, resize,
\* set_flag and the others under the object check) raise
\* InvalidObjectError; the property setters (Geometry.start, length and
\* end, Partition.name) raise nothing and do nothing; after any of them
\* the handle is null and its properties read as before.
C27_NullMethodsRaiseSettersPass ==
    call.op # "init" =>
        /\ NullDefaults
        /\ call.kind = "method" => call.exc = "InvalidObjectError"
        /\ call.kind = "setter" => call.exc = "none"

\* geometry.start = 3 on a null geometry went through, and start still
\* reads 0.
C27_Witness ==
    /\ call.op = "Geometry.start"
    /\ call.kind = "setter"
    /\ call.args = <<3>>
    /\ call.exc = "none"
    /\ call.after = NULL
    /\ call.reads.start = 0

(***************************************************************************)
(* SpecSet: Geometry.set on a geometry of the device.                      *)
(***************************************************************************)
InitSet ==
    /\ Idle
    /\ \E g \in AllGeoms :
           call = [op |-> "init", g |-> g, start |-> 0, length |-> 0,
                   exc |-> "none", after |-> g]

\* g.set(start, length), then g.start, g.length and g.end are read.
GeometrySet(start, length) ==
    /\ call.op = "init"
    /\ LET r == Geometry_set(call.g, start, length)
       IN /\ call' = [call EXCEPT !.op = "set", !.start = start,
                                  !.length = length, !.exc = r.exc,
                                  !.after = r.g]
          /\ result' = Res("set", r.exc)
    /\ NullUnchanged

NextSet ==
    \E start \in SetValues, length \in SetValues : GeometrySet(start, length)

SpecSet == InitSet /\ [][NextSet]_vars

\* The ranges that are not ranges of the device.
InvalidRange(start, length) ==
    start < 0 \/ length < 0 \/ start + length > DevLen

\* C28: Geometry.set(start, length) on a valid geometry raises exactly when
\* start < 0, length < 0 or start + length > device.length, and then leaves
\* start, length and end as they were; for every other pair, start = 0
\* included, it raises nothing and the geometry reads start, length and
\* end = start + length - 1.
C28_SetFailsExactlyOnInvalidRange ==
    call.op = "set" =>
        IF InvalidRange(call.start, call.length)
        THEN call.exc # "none" /\ call.after = call.g
        ELSE /\ call.exc = "none"
             /\ Geometry_start(call.after) = call.start
             /\ Geometry_length(call.after) = call.length
             /\ Geometry_end(call.after) = call.start + call.length - 1

(***************************************************************************)
(* The other objects on a deleted partition, under SpecHandle.             *)
(***************************************************************************)
\* An object that is truthy while the native partition it points at has
\* been freed.
StaleAlias(hp, p) ==
    p # NULL /\ Partition_bool(p) /\ IsFreed(hp, p._partition)

\* C29: once a delete has succeeded, no object that is still truthy points
\* at the deleted partition: every other object made earlier on the same
\* partition is falsy as well.
C29_DeleteEmptiesEveryAlias ==
    [][(result'.op = "delete_partition" /\ result'.exc = "none")
           => \A h \in HandleNames : ~StaleAlias(heap', handles'[h])]_vars

(***************************************************************************)
(* SpecMode: the device is opened in either mode, also while it is open,   *)
(* and closed; in between the writing calls are made.  call keeps the      *)
(* modes of the opens still held, the mode of the last open that           *)
(* succeeded, and the number of calls made on a closed device.             *)
(***************************************************************************)
\* An open that sets read_only only when it is the outermost one.
Device_open_outermost(count, ro, mode, ok) ==
    IF ~ok THEN [exc |-> "IOError", count |-> count, read_only |-> ro]
    ELSE [exc |-> "none", count |-> ped_device_open(count),
          read_only |-> IF count = 0 THEN mode = "r" ELSE ro]

\* Device.open(mode): [exc, count, read_only], the open count and read_only
\* afterwards; ok is whether the native open succeeds.
Device_open(count, ro, mode, ok) ==
    IF ~ok THEN [exc |-> "IOError", count |-> count, read_only |-> ro]
    ELSE [exc |-> "none", count |-> ped_device_open(count),
          read_only |-> mode = "r"]

InitMode ==
    /\ sectors = [i \in Sectors |-> i + 1]
    /\ open_count = 0
    /\ read_only = FALSE
    /\ external_mode = FALSE
    /\ dev_label = EncodeLabel(TableWith("msdos", 1, 2))
    /\ disk = Device_new_table("gpt")
    /\ floating = NULL
    /\ handles = <<>>
    /\ heap = <<>>
    /\ result = Res("init", "none")
    /\ call = [held |-> <<>>, last |-> "none", idle |-> 0]

ModeOpen(mode, ok) ==
    /\ open_count < MaxOpen
    /\ LET r == Device_open(open_count, read_only, mode, ok)
       IN /\ open_count' = r.count
          /\ read_only' = r.read_only
          /\ result' = Res("open", r.exc)
          /\ call' = IF r.exc = "none"
                     THEN [call EXCEPT !.held = Append(@, mode),
                                       !.last = mode]
                     ELSE call
    /\ UNCHANGED <<sectors, external_mode, dev_label, disk, floating, handles,
                   heap>>

ModeClose ==
    /\ open_count > 0 \/ call.idle < MaxCalls
    /\ open_count' = Device_close(open_count)
    /\ result' = Res("close", "none")
    /\ call' = IF open_count > 0
               THEN [call EXCEPT !.held = SubSeq(@, 1, Len(@) - 1)]
               ELSE [call EXCEPT !.idle = @ + 1]
    /\ UNCHANGED <<sectors, read_only, external_mode, dev_label, disk,
                   floating, handles, heap>>

\* A writing call made while the device is closed counts as idle.
Idled == IF open_count = 0 THEN [call EXCEPT !.idle = @ + 1] ELSE call

ModeWrite(start) ==
    /\ open_count > 0 \/ call.idle < MaxCalls
    /\ LET r == Device_write(sectors, <<Mark>>, start, 1)
       IN /\ sectors' = r.mem
          /\ result' = Res("Device.write", r.exc)
    /\ call' = Idled
    /\ UNCHANGED <<open_count, read_only, external_mode, dev_label, disk,
                   floating, handles, heap>>

ModeSync(ok) ==
    /\ open_count > 0 \/ call.idle < MaxCalls
    /\ result' = Res("Device.sync", Device_sync(sectors, ok).exc)
    /\ call' = Idled
    /\ UNCHANGED <<sectors, open_count, read_only, external_mode, dev_label,
                   disk, floating, handles, heap>>

ModeClobber(ok) ==
    /\ open_count > 0 \/ call.idle < MaxCalls
    /\ LET r == Device_clobber(dev_label, ok)
       IN /\ dev_label' = r.label
          /\ result' = Res("Device.clobber", r.exc)
    /\ call' = Idled
    /\ UNCHANGED <<sectors, open_count, read_only, external_mode, disk,
                   floating, handles, heap>>

ModeCommit(written) ==
    /\ open_count > 0 \/ call.idle < MaxCalls
    /\ LET r == Disk_commit_to_dev(disk, dev_label, written)
       IN /\ dev_label' = r.label
          /\ result' = Res("Disk.commit_to_dev", r.exc)
    /\ call' = Idled
    /\ UNCHANGED <<sectors, open_count, read_only, external_mode, disk,
                   floating, handles, heap>>

NextMode ==
    \/ \E mode \in {"r", "rw"}, ok \in BOOLEAN : ModeOpen(mode, ok)
    \/ ModeClose
    \/ \E start \in {0, DevLen - 1} : ModeWrite(start)
    \/ \E ok \in BOOLEAN : ModeSync(ok)
    \/ \E ok \in BOOLEAN : ModeClobber(ok)
    \/ \E written \in {0, MaxWrites} : ModeCommit(written)

SpecMode == InitMode /\ [][NextMode]_vars

WritingOps ==
    {"Device.write", "Device.sync", "Device.clobber", "Disk.commit_to_dev"}

\* C30: once an open has succeeded, read_only is TRUE exactly when the last
\* open that succeeded used mode 'r'; close leaves read_only as it is; and
\* while the device is open and that last mode is 'r', write, sync, clobber
\* and commit_to_dev raise ReadOnlyError and change nothing, whatever the
\* modes of the opens still held.
C30_ReadOnlyFollowsLastOpen ==
    /\ [](call.last # "none" => read_only = (call.last = "r"))
    /\ [][/\ result'.op = "close" => read_only' = read_only
          /\ (result'.op \in WritingOps /\ open_count > 0
                  /\ call.last = "r")
                 => /\ result'.exc = "ReadOnlyError"
                    /\ sectors' = sectors
                    /\ dev_label' = dev_label]_vars

\* The device was opened 'rw' and then 'r', the inner open was closed, and
\* a write made under the outer open alone has raised ReadOnlyError.
C30_Witness ==
    /\ call.held = <<"rw">>
    /\ call.last = "r"
    /\ open_count = 1
    /\ read_only
    /\ result = Res("Device.write", "ReadOnlyError")

=============================================================================
